---- MODULE Spec2Model ----
(***************************************************************************)
(* Model of the citrus sweetness (BRIX) dashboard: the React component     *)
(* App (src/App.tsx), its filter panel (src/components/Filters.tsx), the   *)
(* farm analysis view (FarmAnalysis) and the yearly trend view             *)
(* (YearlyTrendAnalysis).                                                  *)
(*                                                                         *)
(* Encodings                                                               *)
(*  - A JavaScript Date at local midnight is its day number: the number of *)
(*    days since 1970-01-01 in the proleptic Gregorian calendar.           *)
(*  - A 'YYYY-MM-DD' string is the integer YYYYMMDD; for four-digit years  *)
(*    the order of these integers is the order of the strings.  The empty  *)
(*    string is 0.                                                         *)
(*  - A BRIX value is an integer number of eighths (72 is 9.0).  Multiples *)
(*    of 1/8 are exact binary64 numbers and so are their sums, so the only *)
(*    inexact floating-point step is the division sum / count.             *)
(*  - An average produced by parseFloat(x.toFixed(2)) is an integer number *)
(*    of hundredths (901 is 9.01).                                         *)
(*  - A JavaScript object used as a property bag is a function whose       *)
(*    domain is a set of strings; an optional value (T | null) is a        *)
(*    sequence of length 0 or 1.                                           *)
(***************************************************************************)
EXTENDS Integers, Sequences, FiniteSets, TLC

VARIABLES allData, filters, activeTab, loading, timer,
          chartData, timeSeriesChartData,
          farmAnalysis, yearlyTrend, acc, emitted

vars == <<allData, filters, activeTab, loading, timer,
          chartData, timeSeriesChartData,
          farmAnalysis, yearlyTrend, acc, emitted>>

----------------------------------------------------------------------------
(* Calendar: new Date(y, m - 1, d), getFullYear, getMonth, getDate.        *)

\* new Date(year, month, day) for a 1-based month m; a day past the end of
\* the month rolls over into the next month as the Date constructor does.
DayNumber(y, m, d) ==
    LET yy  == IF m <= 2 THEN y - 1 ELSE y
        era == yy \div 400
        yoe == yy - era * 400
        mp  == IF m > 2 THEN m - 3 ELSE m + 9
        doy == (153 * mp + 2) \div 5 + d - 1
        doe == yoe * 365 + yoe \div 4 - yoe \div 100 + doy
    IN  era * 146097 + doe - 719468

\* The civil date <<year, month (1-based), day>> of a day number, computed
\* in stages: the day of the 400-year era, the year of the era, the day of
\* the year counted from March 1st, the month counted from March.
CivilMonth(y0, m, d) == <<y0 + (IF m <= 2 THEN 1 ELSE 0), m, d>>

CivilMp(y0, doy, mp) ==
    CivilMonth(y0, IF mp < 10 THEN mp + 3 ELSE mp - 9,
               doy - (153 * mp + 2) \div 5 + 1)

CivilDoy(y0, doy) == CivilMp(y0, doy, (5 * doy + 2) \div 153)

CivilYoe(era, doe, yoe) ==
    CivilDoy(yoe + era * 400, doe - (365 * yoe + yoe \div 4 - yoe \div 100))

CivilEra(era, doe) ==
    CivilYoe(era, doe,
             (doe - doe \div 1460 + doe \div 36524 - doe \div 146096) \div 365)

Civil(n) == CivilEra((n + 719468) \div 146097, (n + 719468) % 146097)

getFullYear(n) == Civil(n)[1]
\* getMonth() is 0-based
getMonth(n) == Civil(n)[2] - 1
getDate(n) == Civil(n)[3]

\* parseDateAsLocal: null for the empty string, else new Date(y, m - 1, d)
parseDateAsLocal(dateString) ==
    IF dateString = 0 THEN <<>>
    ELSE <<DayNumber(dateString \div 10000,
                     (dateString \div 100) % 100,
                     dateString % 100)>>

\* formatDateToYYYYMMDD: `${year}-${month padded}-${day padded}`
FormatCivil(c) == c[1] * 10000 + c[2] * 100 + c[3]
formatDateToYYYYMMDD(date) == FormatCivil(Civil(date))

\* The year part of a 'YYYY-MM-DD' string, as getFullYear().toString() of
\* the parsed date gives it.
YearStr(date) == getFullYear(date)

----------------------------------------------------------------------------
(* parseFloat((sum / count).toFixed(2)) in binary64 arithmetic.            *)

RECURSIVE FracBits(_, _, _, _)
\* k further quotient bits of r / q (0 <= r < q), taken eight at a time
\* while eight or more remain; the result is the remainder left and the last
\* bit produced.
FracBits(r, q, k, last) ==
    IF k = 0 THEN <<r, last>>
    ELSE IF k >= 8
         THEN FracBits((256 * r) % q, q, k - 8, ((256 * r) \div q) % 2)
         ELSE LET r2  == 2 * r
                  bit == IF r2 >= q THEN 1 ELSE 0
              IN  FracBits(r2 - bit * q, q, k - 1, bit)

RECURSIVE SkipZeros(_, _)
\* For 0 < r < q: skip the leading zero bits of r / q; the first one bit is
\* the leading significand bit and 52 more follow.
SkipZeros(r, q) ==
    LET r2 == 2 * r
    IN  IF r2 >= q THEN FracBits(r2 - q, q, 52, 1) ELSE SkipZeros(r2, q)

RECURSIVE BitLen(_)
BitLen(i) == IF i = 0 THEN 0 ELSE 1 + BitLen(i \div 2)

\* The sign of RN(p / q) - p / q, where RN rounds to the nearest binary64
\* number (53 significand bits), ties to even: 1 when the division rounds
\* up, -1 when it rounds down, 0 when p / q is a binary64 number.
RoundDir(p, q) ==
    LET i    == p \div q
        r    == p % q
        tail == IF i > 0 THEN FracBits(r, q, 53 - BitLen(i), i % 2)
                ELSE IF r = 0 THEN <<0, 0>>
                ELSE SkipZeros(r, q)
        rem  == tail[1]
        last == tail[2]
    IN  IF rem = 0 THEN 0
        ELSE IF 2 * rem > q THEN 1
        ELSE IF 2 * rem < q THEN 0 - 1
        ELSE IF last = 1 THEN 1 ELSE 0 - 1

\* parseFloat((total / count).toFixed(2)) in hundredths, for a total in
\* eighths and count >= 1.  toFixed(2) takes the integer n for which
\* n / 100 is nearest the exact value of the double x = RN(total / count),
\* the larger n on a tie.  x differs from the exact quotient by less than
\* 2^-40, and an exact quotient that is not midway between two hundredths is
\* at least 1 / (1600 * count) away from the midpoint, so only for a quotient
\* exactly on a midpoint does the direction of the division's rounding
\* decide the digit.
ToFixed2(total, count) ==
    LET a   == 100 * total
        b   == 8 * count
        fl  == a \div b
        rem == a % b
    IN  IF 2 * rem < b THEN fl
        ELSE IF 2 * rem > b THEN fl + 1
        ELSE IF RoundDir(total, b) >= 0 THEN fl + 1 ELSE fl

----------------------------------------------------------------------------
(* JavaScript objects and arrays.                                          *)

\* obj[k], with undefined read as 0 (the `obj[k] || 0` idiom)
Get(obj, k) == IF k \in DOMAIN obj THEN obj[k] ELSE 0

\* obj[k] = v
Put(obj, k, v) == [x \in (DOMAIN obj) \cup {k} |-> IF x = k THEN v ELSE obj[x]]

\* array.includes(x)
Includes(arr, x) == \E i \in 1..Len(arr) : arr[i] = x

RECURSIVE SortAsc(_)
\* Array.from(keys).sort() of a set of 'YYYY-MM-DD' strings (or of numbers
\* with a numeric comparator): ascending, no duplicates among keys.
SortAsc(S) ==
    IF S = {} THEN <<>>
    ELSE LET m == CHOOSE x \in S : \A y \in S : x <= y
         IN  <<m>> \o SortAsc(S \ {m})

\* The series key of the overall average; the source's literal is the Korean
\* for "overall average", written here in Latin letters.
OverallKey == "jeonche pyeonggyun"

\* a.localeCompare(b) < 0 for the names used in the model: plain upper-case
\* ASCII names compare alphabetically.
Alphabet == <<"A", "B", "C", "F1", "F2", "F3", "F4", "F5", "F6">>
LocaleRank(name) == CHOOSE i \in 1..Len(Alphabet) : Alphabet[i] = name
LocaleLess(a, b) == LocaleRank(a) < LocaleRank(b)

----------------------------------------------------------------------------
(* processData, step 1: base filtering by year and variety.                *)

\* Mutant of filteredBase: the year is applied whether or not the date filter
\* is enabled.
filteredBaseYearAlways(data, f) ==
    LET byYear == IF f.year # 0
                  THEN SelectSeq(data, LAMBDA d : YearStr(d.MEASURE_DATE) = f.year)
                  ELSE data
    IN  IF f.variety # "ALL"
        THEN SelectSeq(byYear, LAMBDA d : d.VARIETY = f.variety)
        ELSE byYear

\* let filteredBase = allData;
\* if (!dateFilterEnabled && year !== 'ALL') filteredBase = filter by year;
\* if (variety !== 'ALL') filteredBase = filter by variety
filteredBase(data, f) ==
    LET byYear == IF ~f.dateFilterEnabled /\ f.year # 0
                  THEN SelectSeq(data, LAMBDA d : YearStr(d.MEASURE_DATE) = f.year)
                  ELSE data
    IN  IF f.variety # "ALL"
        THEN SelectSeq(byYear, LAMBDA d : d.VARIETY = f.variety)
        ELSE byYear

----------------------------------------------------------------------------
(* processData, time-series branch.                                        *)

\* Mutant of AddToDay: the keys of every selected farm are created at 0 on
\* the day's entry, whichever farm the record belongs to.
AddToDayKeysForAll(a0, item, farmlands) ==
    LET keys == {farmlands[j] \o "_total" : j \in 1..Len(farmlands)}
                    \cup {farmlands[j] \o "_count" : j \in 1..Len(farmlands)}
        tk   == item.FARMLAND \o "_total"
        ck   == item.FARMLAND \o "_count"
    IN  [k \in DOMAIN a0 \cup keys |->
            IF k = "daily_total" THEN a0[k] + item.BRIX
            ELSE IF k = "daily_count" THEN a0[k] + 1
            ELSE IF k = tk THEN Get(a0, k) + item.BRIX
            ELSE IF k = ck THEN Get(a0, k) + 1
            ELSE Get(a0, k)]

\* The loop body of the daily aggregation on the day's entry a0:
\*   dateAgg.daily_total += item.BRIX; dateAgg.daily_count += 1;
\*   if (farmlands.includes(item.FARMLAND)) { `${farm}_total` and
\*   `${farm}_count` are created at 0 and increased }
AddToDay(a0, item, farmlands) ==
    LET a1 == Put(a0, "daily_total", a0["daily_total"] + item.BRIX)
        a2 == Put(a1, "daily_count", a1["daily_count"] + 1)
        tk == item.FARMLAND \o "_total"
        ck == item.FARMLAND \o "_count"
        t  == Put(a2, tk, Get(a2, tk) + item.BRIX)
    IN  IF Includes(farmlands, item.FARMLAND)
        THEN Put(t, ck, Get(t, ck) + 1)
        ELSE a2

\* dailyAggregates.get(dateStr), the entry being created on first sight
DayEntry(m, dateStr, item) ==
    IF dateStr \in DOMAIN m THEN m[dateStr]
    ELSE [dateObj |-> item.MEASURE_DATE, daily_total |-> 0, daily_count |-> 0]

\* One record folded into the Map at its date string
AddRecord(m, dateStr, item, farmlands) ==
    Put(m, dateStr, AddToDay(DayEntry(m, dateStr, item), item, farmlands))

RECURSIVE dailyAggregates(_, _, _, _)
\* The Map dateStr -> { dateObj, daily_total, daily_count, `${farm}_total`,
\* `${farm}_count` } after the records items[i..] are folded into m.
dailyAggregates(items, i, farmlands, m) ==
    IF i > Len(items) THEN m
    ELSE dailyAggregates(items, i + 1, farmlands,
             AddRecord(m, formatDateToYYYYMMDD(items[i].MEASURE_DATE),
                       items[i], farmlands))

\* Mutant of FarmAverage: the farm's cumulative average is stored on every
\* date once the farm has a tracker with data, not only on its own days.
FarmAverageCarried(farms, farm, has, fs) ==
    IF fs.count > 0 THEN Put(farms, farm, ToFixed2(fs.sum, fs.count)) ELSE farms

\* if (farmTotal !== undefined && farmCount > 0) { ...;
\*     computedEntry.farms[farm] = parseFloat((sum / count).toFixed(2)) }
FarmAverage(farms, farm, has, fs) ==
    IF has THEN Put(farms, farm, ToFixed2(fs.sum, fs.count)) ELSE farms

\* Mutant of FarmFold: the tracker is replaced by the day's sums instead of
\* being added to (a daily mean instead of a cumulative one).
FarmFoldDaily(tracker, agg, tk, ck, has) ==
    IF has THEN [sum |-> agg[tk], count |-> agg[ck]] ELSE tracker

\* The farm's tracker after the day: folded in when the day has a total for
\* the farm, untouched otherwise.
FarmFold(tracker, agg, tk, ck, has) ==
    IF has
    THEN [sum |-> tracker.sum + agg[tk], count |-> tracker.count + agg[ck]]
    ELSE tracker

\* farmTotal !== undefined && farmCount > 0
FarmHasData(agg, tk, ck) ==
    tk \in DOMAIN agg /\ ck \in DOMAIN agg /\ agg[ck] > 0

\* if (!farmCumulativeStats.has(farm)) farmCumulativeStats.set(farm, {0, 0})
WithTracker(stats, farm) ==
    IF farm \in DOMAIN stats THEN stats
    ELSE Put(stats, farm, [sum |-> 0, count |-> 0])

RECURSIVE FarmCumulative(_, _, _, _, _)
\* The loop `for (const farm of farmlands)` of the cumulative walk on one
\* date: the farm's tracker is created on first sight, and folded in and
\* averaged only when the day has a total for the farm.
FarmCumulative(farmlands, j, agg, stats, farms) ==
    IF j > Len(farmlands) THEN [stats |-> stats, farms |-> farms]
    ELSE LET farm == farmlands[j]
             tk   == farm \o "_total"
             ck   == farm \o "_count"
             has  == FarmHasData(agg, tk, ck)
             fs   == FarmFold(WithTracker(stats, farm)[farm], agg, tk, ck, has)
         IN  FarmCumulative(farmlands, j + 1, agg, Put(stats, farm, fs),
                            FarmAverage(farms, farm, has, fs))

\* Mutant of YearReset: the trackers run on across the year change.
YearResetNever(st, rowYear) == [st EXCEPT !.currentYear = rowYear]

\* The reset of the cumulative trackers when the year of the date differs
\* from the year of the previous date.
YearReset(st, rowYear) ==
    IF rowYear # st.currentYear
    THEN [st EXCEPT !.currentYear = rowYear, !.cumulativeSum = 0,
                    !.cumulativeCount = 0, !.farmCumulativeStats = <<>>]
    ELSE st

\* Mutant of FoldOverall: every date counts once, whatever its number of
\* records (a mean of daily totals instead of a mean of records).
FoldOverallPerDay(st, agg) ==
    IF agg["daily_count"] > 0
    THEN [st EXCEPT !.cumulativeSum = @ + agg["daily_total"],
                    !.cumulativeCount = @ + 1]
    ELSE st

\* if (agg.daily_count > 0) { cumulativeSum += agg.daily_total;
\*                            cumulativeCount += agg.daily_count }
FoldOverall(st, agg) ==
    IF agg["daily_count"] > 0
    THEN [st EXCEPT !.cumulativeSum = @ + agg["daily_total"],
                    !.cumulativeCount = @ + agg["daily_count"]]
    ELSE st

\* const computedEntry = { farms: {} };
\* if (cumulativeCount > 0) computedEntry.overall = parseFloat(...toFixed(2))
OverallEntry(st) ==
    IF st.cumulativeCount > 0
    THEN [farms |-> <<>>,
          overall |-> ToFixed2(st.cumulativeSum, st.cumulativeCount)]
    ELSE [farms |-> <<>>]

\* if (computedEntry.overall !== undefined || Object.keys(farms).length > 0)
\*     computedAveragesMap.set(dateStr, computedEntry)
StoreEntry(computed, dateStr, entry) ==
    IF "overall" \in DOMAIN entry \/ DOMAIN entry["farms"] # {}
    THEN Put(computed, dateStr, entry)
    ELSE computed

\* The walk's state after a date, from the state s2 with the overall sums
\* folded in and the result fc of the farm loop.
WalkStore(s2, fc, dateStr) ==
    [s2 EXCEPT !.farmCumulativeStats = fc.stats,
               !.computed = StoreEntry(@, dateStr,
                                       Put(OverallEntry(s2), "farms", fc.farms))]

\* The farm loop run on the state s2
WalkFarms(s2, agg, farmlands, dateStr) ==
    WalkStore(s2, FarmCumulative(farmlands, 1, agg, s2.farmCumulativeStats, <<>>),
              dateStr)

\* One date of the walk
WalkDate(st, agg, farmlands, dateStr) ==
    WalkFarms(FoldOverall(YearReset(st, YearStr(agg["dateObj"])), agg),
              agg, farmlands, dateStr)

RECURSIVE computedAveragesMap(_, _, _, _, _)
\* The walk over sortedDates[i..]: st holds currentYear, cumulativeSum,
\* cumulativeCount, farmCumulativeStats and the Map built so far.
computedAveragesMap(sortedDates, i, daily, farmlands, st) ==
    IF i > Len(sortedDates) THEN st.computed
    ELSE computedAveragesMap(sortedDates, i + 1, daily, farmlands,
             WalkDate(st, daily[sortedDates[i]], farmlands, sortedDates[i]))

\* The state of the cumulative walk before its first date
WalkInit ==
    [currentYear |-> 0, cumulativeSum |-> 0, cumulativeCount |-> 0,
     farmCumulativeStats |-> <<>>, computed |-> <<>>]

----------------------------------------------------------------------------
(* processData, time-series branch: fill the date range.                   *)

\* The test of one date of the backward scan: before the start date, in its
\* year, and with a computed overall value.
SeedHere(dStr, dObj, start, computed) ==
    /\ dObj # <<>>
    /\ dObj[1] < start
    /\ YearStr(dObj[1]) = YearStr(start)
    /\ dStr \in DOMAIN computed
    /\ "overall" \in DOMAIN computed[dStr]

RECURSIVE SeedScan(_, _, _, _)
\* The backward scan `for (i = sortedDates.length - 1; i >= 0; i--)` for the
\* last computed overall value before the start date, within its year.
SeedScan(sortedDates, i, start, computed) ==
    IF i < 1
    THEN [lastKnownOverall |-> <<>>, lastDateOverall |-> <<>>, lastKnownYear |-> 0]
    ELSE IF SeedHere(sortedDates[i], parseDateAsLocal(sortedDates[i]), start, computed)
         THEN [lastKnownOverall |-> <<computed[sortedDates[i]]["overall"]>>,
               lastDateOverall  |-> parseDateAsLocal(sortedDates[i]),
               lastKnownYear    |-> YearStr(start)]
         ELSE SeedScan(sortedDates, i - 1, start, computed)

\* const MAX_GAP_DAYS = 0
MAX_GAP_DAYS == 0

RECURSIVE FarmPoint(_, _, _, _)
\* The loop that copies the farms' computed values of the day into the point
FarmPoint(farmlands, j, entry, point) ==
    IF j > Len(farmlands) THEN point
    ELSE LET farm == farmlands[j]
         IN  IF entry # <<>> /\ farm \in DOMAIN entry[1]["farms"]
             THEN FarmPoint(farmlands, j + 1, entry,
                            Put(point, farm, entry[1]["farms"][farm]))
             ELSE FarmPoint(farmlands, j + 1, entry, point)

\* Mutant of LastKnownInYear: the year is noted but the tracker is kept.
LastKnownKept(lk, currentYearStr) ==
    [lk EXCEPT !.lastKnownYear = currentYearStr]

\* if (currentYearStr !== lastKnownYear) the tracker of the last known
\* overall value is emptied
LastKnownInYear(lk, currentYearStr) ==
    IF currentYearStr # lk.lastKnownYear
    THEN [lastKnownOverall |-> <<>>, lastDateOverall |-> <<>>,
          lastKnownYear |-> currentYearStr]
    ELSE lk

\* Math.ceil(|currentTime - lastDate| / one day): whole days, both dates
\* being local midnights
DiffDays(currentDate, lastDate) ==
    IF currentDate >= lastDate THEN currentDate - lastDate
    ELSE lastDate - currentDate

\* Mutant of OverallPoint: the last known value is carried to every later
\* day, whatever the gap.
OverallPointCarried(p0, currentDate, entry, lk1) ==
    IF entry # <<>> /\ "overall" \in DOMAIN entry[1]
    THEN Put(p0, OverallKey, entry[1]["overall"])
    ELSE IF lk1.lastKnownOverall # <<>> /\ lk1.lastDateOverall # <<>>
         THEN Put(p0, OverallKey, lk1.lastKnownOverall[1])
         ELSE p0

\* A plausible slip: a day without any known overall value is given 0
OverallPointZero(p0, currentDate, entry, lk1) ==
    IF entry # <<>> /\ "overall" \in DOMAIN entry[1]
    THEN Put(p0, OverallKey, entry[1]["overall"])
    ELSE IF /\ lk1.lastKnownOverall # <<>>
            /\ lk1.lastDateOverall # <<>>
            /\ DiffDays(currentDate, lk1.lastDateOverall[1]) <= MAX_GAP_DAYS
         THEN Put(p0, OverallKey, lk1.lastKnownOverall[1])
         ELSE Put(p0, OverallKey, 0)

\* The overall value of the day's point: the computed one, else the last
\* known one when it is at most MAX_GAP_DAYS old
OverallPoint(p0, currentDate, entry, lk1) ==
    IF entry # <<>> /\ "overall" \in DOMAIN entry[1]
    THEN Put(p0, OverallKey, entry[1]["overall"])
    ELSE IF /\ lk1.lastKnownOverall # <<>>
            /\ lk1.lastDateOverall # <<>>
            /\ DiffDays(currentDate, lk1.lastDateOverall[1]) <= MAX_GAP_DAYS
         THEN Put(p0, OverallKey, lk1.lastKnownOverall[1])
         ELSE p0

\* lastKnownOverall = computed.overall; lastDateOverall = new Date(currentDate)
Remember(currentDate, entry, lk1) ==
    IF entry # <<>> /\ "overall" \in DOMAIN entry[1]
    THEN [lk1 EXCEPT !.lastKnownOverall = <<entry[1]["overall"]>>,
                     !.lastDateOverall = <<currentDate>>]
    ELSE lk1

\* The day's point and tracker given the day's computed entry (none: <<>>)
FillDayWith(currentDate, dateStr, entry, farmlands, lk1) ==
    [lk    |-> Remember(currentDate, entry, lk1),
     point |-> FarmPoint(farmlands, 1, entry,
                         OverallPoint([date |-> dateStr], currentDate, entry, lk1))]

\* computedAveragesMap.get(dateStr)
ComputedGet(computed, dateStr) ==
    IF dateStr \in DOMAIN computed THEN <<computed[dateStr]>> ELSE <<>>

\* One iteration of the loop over the days of the window: the tracker of the
\* last known overall value after the day, and the day's point.
FillDay(currentDate, computed, farmlands, lk) ==
    FillDayWith(currentDate, formatDateToYYYYMMDD(currentDate),
                ComputedGet(computed, formatDateToYYYYMMDD(currentDate)),
                farmlands, LastKnownInYear(lk, YearStr(currentDate)))

\* Mutant of LoopContinues: the last day of the window is left out.
LoopStopsEarly(currentDate, end) == currentDate < end

\* The loop condition currentDate <= end
LoopContinues(currentDate, end) == currentDate <= end

RECURSIVE FillRange(_, _, _, _, _, _)

\* finalTimeSeriesData.push(point); currentDate.setDate(getDate() + 1)
FillNext(currentDate, end, computed, farmlands, step, out) ==
    FillRange(currentDate + 1, end, computed, farmlands, step.lk,
              Append(out, step.point))

\* for (currentDate = new Date(start); currentDate <= end; setDate(+1))
FillRange(currentDate, end, computed, farmlands, lk, out) ==
    IF ~LoopContinues(currentDate, end) THEN out
    ELSE FillNext(currentDate, end, computed, farmlands,
                  FillDay(currentDate, computed, farmlands, lk), out)

\* Mutant of WindowBounds: a reversed window is put in order instead of
\* being rejected.
WindowBoundsSwapped(start, end) ==
    IF start # <<>> /\ end # <<>>
    THEN IF end[1] >= start[1] THEN <<start[1], end[1]>> ELSE <<end[1], start[1]>>
    ELSE <<>>

\* if (start && end && end >= start): the bounds of the loop, none when the
\* guard fails.
WindowBounds(start, end) ==
    IF start # <<>> /\ end # <<>> /\ end[1] >= start[1]
    THEN <<start[1], end[1]>>
    ELSE <<>>

\* The window loop on the bounds w (none: <<>>), seeded by the backward scan
FillWindow(w, sortedDates, computed, farmlands) ==
    IF w # <<>>
    THEN FillRange(w[1], w[2], computed, farmlands,
                   SeedScan(sortedDates, Len(sortedDates), w[1], computed), <<>>)
    ELSE <<>>

\* The cumulative walk over the sorted dates, then the window loop
FromSortedDates(sortedDates, daily, f) ==
    FillWindow(WindowBounds(parseDateAsLocal(f.startDate),
                            parseDateAsLocal(f.endDate)),
               sortedDates,
               computedAveragesMap(sortedDates, 1, daily, f.farmlands, WalkInit),
               f.farmlands)

\* sortedDates = Array.from(dailyAggregates.keys()).sort()
FromDaily(daily, f) == FromSortedDates(SortAsc(DOMAIN daily), daily, f)

\* Mutant of finalTimeSeriesData: the records are restricted to the window
\* before the daily aggregates are built, as an earlier version of
\* processData did.
finalTimeSeriesDataWindowed(data, f) ==
    FromDaily(
        dailyAggregates(
            SelectSeq(filteredBase(data, f),
                      LAMBDA d :
                          /\ (parseDateAsLocal(f.startDate) = <<>>
                                \/ d.MEASURE_DATE >= parseDateAsLocal(f.startDate)[1])
                          /\ (parseDateAsLocal(f.endDate) = <<>>
                                \/ d.MEASURE_DATE <= parseDateAsLocal(f.endDate)[1])),
            1, f.farmlands, <<>>),
        f)

\* finalTimeSeriesData of the time-series branch
finalTimeSeriesData(data, f) ==
    FromDaily(dailyAggregates(filteredBase(data, f), 1, f.farmlands, <<>>), f)

----------------------------------------------------------------------------
(* processData, categorical branch.                                        *)

\* The loop body of the categorical aggregation on the variety's entry a0
AddToVariety(a0, item, farmlands) ==
    LET a1 == Put(a0, "overall_total", a0["overall_total"] + item.BRIX)
        a2 == Put(a1, "overall_count", a1["overall_count"] + 1)
        tk == item.FARMLAND \o "_total"
        ck == item.FARMLAND \o "_count"
        t  == Put(a2, tk, Get(a2, tk) + item.BRIX)
    IN  IF Includes(farmlands, item.FARMLAND)
        THEN Put(t, ck, Get(t, ck) + 1)
        ELSE a2

\* dataByVariety.get(itemVariety), the entry being created on first sight
VarietyEntry(m, v) ==
    IF v \in DOMAIN m THEN m[v] ELSE [overall_total |-> 0, overall_count |-> 0]

RECURSIVE dataByVariety(_, _, _, _)
\* The Map variety -> { overall_total, overall_count, `${farm}_total`,
\* `${farm}_count` } after items[i..] are folded in; acc0.order lists the keys
\* in insertion order, as Map.entries() yields them.
dataByVariety(items, i, farmlands, acc0) ==
    IF i > Len(items) THEN acc0
    ELSE dataByVariety(items, i + 1, farmlands,
             [map   |-> Put(acc0.map, items[i].VARIETY,
                            AddToVariety(VarietyEntry(acc0.map, items[i].VARIETY),
                                         items[i], farmlands)),
              order |-> IF items[i].VARIETY \in DOMAIN acc0.map THEN acc0.order
                        ELSE Append(acc0.order, items[i].VARIETY)])

RECURSIVE VarietyFarms(_, _, _, _)
\* The loop over farmlands that adds the farms' averages to a variety's point
VarietyFarms(farmlands, j, aggs, point) ==
    IF j > Len(farmlands) THEN point
    ELSE LET farm == farmlands[j]
             tk   == farm \o "_total"
             ck   == farm \o "_count"
         IN  IF tk \in DOMAIN aggs /\ ck \in DOMAIN aggs /\ aggs[ck] > 0
             THEN VarietyFarms(farmlands, j + 1, aggs,
                               Put(point, farm, ToFixed2(aggs[tk], aggs[ck])))
             ELSE VarietyFarms(farmlands, j + 1, aggs, point)

\* The overall average of one Map entry [v, aggs]
VarietyOverall(p0, aggs) ==
    IF aggs["overall_count"] > 0
    THEN Put(p0, OverallKey,
             ToFixed2(aggs["overall_total"], aggs["overall_count"]))
    ELSE p0

\* The point of one Map entry [v, aggs]
VarietyPoint(v, aggs, farmlands) ==
    VarietyFarms(farmlands, 1, aggs, VarietyOverall([variety |-> v], aggs))

RECURSIVE InsertByVariety(_, _)
\* Insert p into the sorted array arr after every element that does not
\* compare greater: a stable sort by a.variety.localeCompare(b.variety).
InsertByVariety(arr, p) ==
    IF arr = <<>> THEN <<p>>
    ELSE IF LocaleLess(p["variety"], Head(arr)["variety"])
         THEN <<p>> \o arr
         ELSE <<Head(arr)>> \o InsertByVariety(Tail(arr), p)

\* Mutant of SortByVariety: the points are left in the insertion order of
\* the Map.
SortByVarietyOmitted(arr, i, out) == arr

RECURSIVE SortByVariety(_, _, _)
SortByVariety(arr, i, out) ==
    IF i > Len(arr) THEN out
    ELSE SortByVariety(arr, i + 1, InsertByVariety(out, arr[i]))

\* A plausible slip: a point is kept only when a farm has a value in it
KeepPointWithFarm(p) == Cardinality(DOMAIN p) > 2

\* .filter(p => Object.keys(p).length > 1)
KeepPoint(p) == Cardinality(DOMAIN p) > 1

\* Array.from(dataByVariety.entries()).map(...).filter(...).sort(...)
FromVarietyMap(byVar, farmlands) ==
    SortByVariety(
        SelectSeq([k \in 1..Len(byVar.order) |->
                      VarietyPoint(byVar.order[k], byVar.map[byVar.order[k]],
                                   farmlands)],
                  KeepPoint),
        1, <<>>)

\* Mutant of finalChartData: the records are first restricted to the window
\* [startDate, endDate] of the selection.
finalChartDataWindowed(data, f) ==
    FromVarietyMap(
        dataByVariety(
            SelectSeq(filteredBase(data, f),
                      LAMBDA d :
                          /\ (parseDateAsLocal(f.startDate) = <<>>
                                \/ d.MEASURE_DATE >= parseDateAsLocal(f.startDate)[1])
                          /\ (parseDateAsLocal(f.endDate) = <<>>
                                \/ d.MEASURE_DATE <= parseDateAsLocal(f.endDate)[1])),
            1, f.farmlands, [map |-> <<>>, order |-> <<>>]),
        f.farmlands)

\* finalChartData of the categorical branch: map, filter, sort
finalChartData(data, f) ==
    FromVarietyMap(dataByVariety(filteredBase(data, f), 1, f.farmlands,
                                 [map |-> <<>>, order |-> <<>>]),
                   f.farmlands)

----------------------------------------------------------------------------
(* FarmAnalysis: the records of the selected farm, the date range and the  *)
(* tag heatmap.                                                            *)

\* data.filter(d => d.FARMLAND === selectedFarm)
farmData(data, selectedFarm) ==
    SelectSeq(data, LAMBDA d : d.FARMLAND = selectedFarm)

\* end.setHours(23, 59, 59, 999): the last millisecond of the day
setHoursEndOfDay(end) == [day |-> end, ms |-> 86399999]

\* Mutant of NotAfter: the records of the end date are left out.
NotAfterExcluded(date, end) == date < end.day

\* d.MEASURE_DATE <= end, for a record date at local midnight
NotAfter(date, end) == date < end.day \/ (date = end.day /\ 0 <= end.ms)

\* d.MEASURE_DATE >= start && d.MEASURE_DATE <= end
InRange(fd, start, end) ==
    SelectSeq(fd, LAMBDA d : d.MEASURE_DATE >= start /\ NotAfter(d.MEASURE_DATE, end))

\* The filter of the date range once both bounds are parsed
RangeOf(fd, start, end) ==
    IF start = <<>> \/ end = <<>> THEN fd
    ELSE InRange(fd, start[1], setHoursEndOfDay(end[1]))

\* filteredData: farmData within [startDate, endDate], the end inclusive
filteredData(fd, startDate, endDate) ==
    RangeOf(fd, parseDateAsLocal(startDate), parseDateAsLocal(endDate))

\* tagMap.get(d.TAG_NO), the entry being created on first sight
TagEntry(m, tag) ==
    IF tag \in DOMAIN m THEN m[tag] ELSE [sum |-> 0, count |-> 0]

\* t.sum += d.BRIX; t.count += 1
AddToTag(t, d) == [sum |-> t.sum + d.BRIX, count |-> t.count + 1]

\* A plausible slip: untagged records are counted like the others
TagCountedAlways(d) == TRUE

\* if (d.TAG_NO !== 0)
TagCounted(d) == d.TAG_NO # 0

RECURSIVE tagMap(_, _, _)
\* The Map tag -> { sum, count } after items[i..] are folded in
tagMap(items, i, m) ==
    IF i > Len(items) THEN m
    ELSE tagMap(items, i + 1,
                IF TagCounted(items[i])
                THEN Put(m, items[i].TAG_NO,
                         AddToTag(TagEntry(m, items[i].TAG_NO), items[i]))
                ELSE m)

\* .map(([tag, stats]) => ({ tag, avg })) on the entries taken in the order
\* tags
TagRows(m, tags) ==
    [k \in 1..Len(tags) |->
        [tag |-> tags[k], avg |-> ToFixed2(m[tags[k]].sum, m[tags[k]].count)]]

\* .sort((a, b) => a.tag - b.tag): the keys of a Map are distinct
TagsOf(m) == TagRows(m, SortAsc(DOMAIN m))

\* tagData of the filtered records
tagData(filtered) == TagsOf(tagMap(filtered, 1, <<>>))

\* yearMap.get(year), the entry being created on first sight
YearMapEntry(m, year) ==
    IF year \in DOMAIN m THEN m[year] ELSE [sum |-> 0, count |-> 0]

RECURSIVE yearMap(_, _, _)
\* The Map year -> { sum, count } of yearlyAverages after the records
\* fd[i..] are folded in
yearMap(fd, i, m) ==
    IF i > Len(fd) THEN m
    ELSE yearMap(fd, i + 1,
                 Put(m, YearStr(fd[i].MEASURE_DATE),
                     AddToTag(YearMapEntry(m, YearStr(fd[i].MEASURE_DATE)), fd[i])))

\* .sort((a, b) => b.year.localeCompare(a.year)): the years, latest first
YearsDescending(asc) == [k \in 1..Len(asc) |-> asc[Len(asc) + 1 - k]]

\* .map(([year, stats]) => ({ year, avg })) on the years taken in the order
\* years
YearRows(m, years) ==
    [k \in 1..Len(years) |->
        [year |-> years[k], avg |-> ToFixed2(m[years[k]].sum, m[years[k]].count)]]

\* yearlyAverages of the farm's records of all time
yearlyAverages(fd) ==
    YearRows(yearMap(fd, 1, <<>>), YearsDescending(SortAsc(DOMAIN yearMap(fd, 1, <<>>))))

\* filteredData.filter(d => d.TAG_NO === selectedTag)
tagSpecificData(filtered, tag) == SelectSeq(filtered, LAMBDA d : d.TAG_NO = tag)

RECURSIVE dailyMap(_, _, _)
\* The Map dateStr -> { sum, count } of selectedTagDetails after the records
\* items[i..] are folded in
dailyMap(items, i, m) ==
    IF i > Len(items) THEN m
    ELSE dailyMap(items, i + 1,
                  Put(m, formatDateToYYYYMMDD(items[i].MEASURE_DATE),
                      AddToTag(YearMapEntry(m, formatDateToYYYYMMDD(items[i].MEASURE_DATE)),
                               items[i])))

\* .map(([date, stats]) => ({ date, avg, count })) on the dates taken in the
\* order dates
DetailRows(m, dates) ==
    [k \in 1..Len(dates) |->
        [date |-> dates[k], avg |-> ToFixed2(m[dates[k]].sum, m[dates[k]].count),
         count |-> m[dates[k]].count]]

\* selectedTagDetails: none without a selected tag, else the days of the
\* selected tag's records in ascending order
selectedTagDetails(selectedTag, filtered) ==
    IF selectedTag = <<>> THEN <<>>
    ELSE DetailRows(dailyMap(tagSpecificData(filtered, selectedTag[1]), 1, <<>>),
                    SortAsc(DOMAIN dailyMap(tagSpecificData(filtered, selectedTag[1]),
                                            1, <<>>)))

----------------------------------------------------------------------------
(* YearlyTrendAnalysis: the years of one variety laid over one MM-DD axis. *)

\* data.filter(d => d.VARIETY === selectedVariety)
trendFiltered(data, selectedVariety) ==
    SelectSeq(data, LAMBDA d : d.VARIETY = selectedVariety)

\* yearMap.get(year): the records of one year, in their order
yearData(filtered, year) ==
    SelectSeq(filtered, LAMBDA d : YearStr(d.MEASURE_DATE) = year)

\* Array.from(yearMap.keys()).sort()
yearsFound(filtered) ==
    SortAsc({YearStr(filtered[i].MEASURE_DATE) : i \in 1..Len(filtered)})

RECURSIVE ReduceBrix(_, _)
\* records.reduce((acc, curr) => acc + curr.BRIX, 0) from position i on
ReduceBrix(records, i) ==
    IF i > Len(records) THEN 0
    ELSE records[i].BRIX + ReduceBrix(records, i + 1)

\* The average of the records of one year
YearAverage(records) == ToFixed2(ReduceBrix(records, 1), Len(records))

\* yearlyAvgs
yearlyAvgs(filtered, years) ==
    [k \in 1..Len(years) |->
        [year |-> years[k], avg |-> YearAverage(yearData(filtered, years[k]))]]

\* Mutant of DateKey: the records of one month share a key.
DateKeyOfMonth(date) == 100 * getMonth(date)

\* `${d.MEASURE_DATE.getMonth()}-${d.MEASURE_DATE.getDate()}`, written as
\* the number 100 * getMonth() + getDate()
DateKey(date) == 100 * getMonth(date) + getDate(date)

\* dailyAgg.get(dateKey), the entry being created on first sight
DailyAggEntry(m, key, d) ==
    IF key \in DOMAIN m THEN m[key]
    ELSE [sum |-> 0, count |-> 0, origDate |-> d.MEASURE_DATE]

\* entry.sum += d.BRIX; entry.count += 1
AddToDailyAgg(e, d) ==
    [sum |-> e.sum + d.BRIX, count |-> e.count + 1, origDate |-> e.origDate]

\* The loop body of the daily aggregation of one year
DailyAggStep(a, key, d) ==
    [map   |-> Put(a.map, key, AddToDailyAgg(DailyAggEntry(a.map, key, d), d)),
     order |-> IF key \in DOMAIN a.map THEN a.order ELSE Append(a.order, key)]

RECURSIVE dailyAgg(_, _, _)
\* The Map dateKey -> { sum, count, origDate } of one year's records; a.order
\* lists the keys in insertion order, as Map.forEach visits them.
dailyAgg(items, i, a) ==
    IF i > Len(items) THEN a
    ELSE dailyAgg(items, i + 1,
                  DailyAggStep(a, DateKey(items[i].MEASURE_DATE), items[i]))

\* Mutant of normalizedKey: the year is part of the key, so the years are
\* not laid over one another.
normalizedKeyWithYear(origDate) ==
    10000 * getFullYear(origDate) + 100 * (getMonth(origDate) + 1) + getDate(origDate)

\* `${month}-${day}`, both padded to two digits, written as the number MMDD
normalizedKey(origDate) == 100 * (getMonth(origDate) + 1) + getDate(origDate)

\* A plausible slip: the points are ordered by the date itself
sortValueOwnYear(origDate) == origDate

\* new Date(2024, origDate.getMonth(), origDate.getDate()).getTime(), in days
sortValue(origDate) ==
    DayNumber(2024, getMonth(origDate) + 1, getDate(origDate))

\* normalizedDataMap.get(normalizedKey), the point created on first sight
NormalizedPoint(nm, key, origDate) ==
    IF key \in DOMAIN nm THEN nm[key]
    ELSE [name |-> key, sortValue |-> sortValue(origDate)]

\* dataPoint[year] = avg
AssignYear(nm, key, e, year) ==
    Put(nm, key, Put(NormalizedPoint(nm, key, e.origDate),
                     ToString(year), ToFixed2(e.sum, e.count)))

RECURSIVE NormalizeDays(_, _, _, _)
\* dailyAgg.forEach(...) of one year, from the k-th entry on
NormalizeDays(agg, k, year, nm) ==
    IF k > Len(agg.order) THEN nm
    ELSE NormalizeDays(agg, k + 1, year,
             AssignYear(nm, normalizedKey(agg.map[agg.order[k]].origDate),
                        agg.map[agg.order[k]], year))

RECURSIVE NormalizeYears(_, _, _, _)
\* yearsFound.forEach(...) from the k-th year on
NormalizeYears(filtered, years, k, nm) ==
    IF k > Len(years) THEN nm
    ELSE NormalizeYears(filtered, years, k + 1,
             NormalizeDays(dailyAgg(yearData(filtered, years[k]), 1,
                                    [map |-> <<>>, order |-> <<>>]),
                           1, years[k], nm))

\* The point that sorts first among the points at keys
FirstBySortValue(nm, keys) ==
    CHOOSE x \in keys : \A y \in keys : nm[x].sortValue <= nm[y].sortValue

RECURSIVE SortBySortValue(_, _)
\* Array.from(normalizedDataMap.values()).sort((a, b) => a.sortValue - b.sortValue)
SortBySortValue(nm, keys) ==
    IF keys = {} THEN <<>>
    ELSE <<nm[FirstBySortValue(nm, keys)]>>
             \o SortBySortValue(nm, keys \ {FirstBySortValue(nm, keys)})

\* Array.from(normalizedDataMap.values()).sort(...)
SortedPoints(nm) == SortBySortValue(nm, DOMAIN nm)

\* The result returned without any record to show
TrendEmpty == [chartData |-> <<>>, years |-> <<>>, yearlyAverages |-> <<>>]

\* The result for the records of the selected variety and their years
TrendOf(filtered, years) ==
    [chartData      |-> SortedPoints(NormalizeYears(filtered, years, 1, <<>>)),
     years          |-> years,
     yearlyAverages |-> yearlyAvgs(filtered, years)]

\* The result for the non-empty list of the selected variety's records
TrendOfFiltered(filtered) ==
    IF filtered = <<>> THEN TrendEmpty
    ELSE TrendOf(filtered, yearsFound(filtered))

\* The useMemo of chartData, years and yearlyAverages
trendMemo(data, selectedVariety) ==
    IF selectedVariety = "" THEN TrendEmpty
    ELSE TrendOfFiltered(trendFiltered(data, selectedVariety))

----------------------------------------------------------------------------
(* The main data processing effect of App and its timer.                   *)

\* The callback of setTimeout(() => { processData(); setLoading(false) }, 50):
\* processData reads the allData and filters the effect closed over.
TimerFire ==
    /\ timer # <<>>
    /\ LET d == timer[1].allData
           f == timer[1].filters
       IN  IF f.dateFilterEnabled
           THEN /\ timeSeriesChartData' = finalTimeSeriesData(d, f)
                /\ chartData' = <<>>
           ELSE /\ chartData' = finalChartData(d, f)
                /\ timeSeriesChartData' = <<>>
    /\ loading' = FALSE
    /\ timer' = <<>>
    /\ UNCHANGED <<allData, filters, activeTab, farmAnalysis, yearlyTrend, acc, emitted>>

\* A render of FarmAnalysis: the memos are computed from the data passed by
\* App and the farm and date range held in the component's state.
FarmAnalysisRender ==
    /\ farmAnalysis # <<>>
    /\ ~farmAnalysis[1].rendered
    /\ farmAnalysis' =
           <<[farmAnalysis[1] EXCEPT
                 !.rendered = TRUE,
                 !.yearlyAverages =
                     yearlyAverages(farmData(allData, farmAnalysis[1].selectedFarm)),
                 !.tagData = tagData(filteredData(
                                 farmData(allData, farmAnalysis[1].selectedFarm),
                                 farmAnalysis[1].startDate,
                                 farmAnalysis[1].endDate)),
                 !.selectedTagDetails =
                     selectedTagDetails(
                         farmAnalysis[1].selectedTag,
                         filteredData(farmData(allData, farmAnalysis[1].selectedFarm),
                                      farmAnalysis[1].startDate,
                                      farmAnalysis[1].endDate))]>>
    /\ UNCHANGED <<allData, filters, activeTab, loading, timer, chartData,
                   timeSeriesChartData, yearlyTrend, acc, emitted>>

\* A render of YearlyTrendAnalysis: the memo is computed from the data
\* property and the selected variety.
YearlyTrendRender ==
    /\ yearlyTrend # <<>>
    /\ ~yearlyTrend[1].rendered
    /\ yearlyTrend' =
           <<[selectedVariety |-> yearlyTrend[1].selectedVariety,
              rendered        |-> TRUE,
              memo            |-> trendMemo(allData, yearlyTrend[1].selectedVariety)]>>
    /\ UNCHANGED <<allData, filters, activeTab, loading, timer, chartData,
                   timeSeriesChartData, farmAnalysis, acc, emitted>>

\* One average is emitted: parseFloat((sum / count).toFixed(2))
EmitAverage ==
    /\ acc # <<>>
    /\ emitted = <<>>
    /\ emitted' = <<ToFixed2(acc[1].total, acc[1].count)>>
    /\ UNCHANGED <<allData, filters, activeTab, loading, timer, chartData,
                   timeSeriesChartData, farmAnalysis, yearlyTrend, acc>>

----------------------------------------------------------------------------
(* Inputs.                                                                 *)

\* The largest number of records in the Record Store
MaxRecords == 3

Farms == {"F1", "F2"}
Varieties == {"A", "B"}

\* The record dates of the time-series inputs: the last day of 2023 and the
\* first three days of 2024.
DaysTS == {DayNumber(2023, 12, 31), DayNumber(2024, 1, 1),
           DayNumber(2024, 1, 2), DayNumber(2024, 1, 3)}

\* formattedData.sort((a, b) => a.MEASURE_DATE - b.MEASURE_DATE) leaves the
\* Record Store in ascending date order.
SortedByDate(s) ==
    \A i \in 1..(Len(s) - 1) : s[i].MEASURE_DATE <= s[i + 1].MEASURE_DATE

\* A fixed order of the records of one day, by farm and then variety
RecordKey(r) ==
    (r.MEASURE_DATE * 8 + LocaleRank(r.FARMLAND)) * 8 + LocaleRank(r.VARIETY)

\* The records of R that may follow the sequence s in the fixed order
Following(R, s) ==
    {r \in R : s = <<>> \/ RecordKey(s[Len(s)]) <= RecordKey(r)}

RECURSIVE RecordSeqs(_, _)
\* The sequences of k records of R in which the dates ascend and the records
\* of one day come in the fixed order
RecordSeqs(R, k) ==
    IF k = 0 THEN {<<>>}
    ELSE UNION {{Append(s, r) : r \in Following(R, s)} : s \in RecordSeqs(R, k - 1)}

\* The non-empty Record Stores of at most n records drawn from R, sorted by
\* date as handleFileParsed leaves them
OrderedDataSets(R, n) ==
    {s \in UNION {RecordSeqs(R, k) : k \in 1..n} : SortedByDate(s)}

\* Records of variety A measure 8.0 and records of variety B measure 10.0
RecordsTS ==
    {r \in [FARMLAND : Farms, VARIETY : Varieties, TAG_NO : {1},
            BRIX : {64, 80}, MEASURE_DATE : DaysTS] :
        r.BRIX = (IF r.VARIETY = "A" THEN 64 ELSE 80)}

\* The farm selections: handleFarmlandChange appends a farm once
FarmSelections == {<<>>, <<"F1">>, <<"F1", "F2">>}

FiltersTS ==
    [farmlands : FarmSelections, variety : {"ALL", "A"},
     startDate : {formatDateToYYYYMMDD(d) : d \in DaysTS},
     endDate : {formatDateToYYYYMMDD(d) : d \in DaysTS},
     dateFilterEnabled : {TRUE}, year : {0}]

\* The components that take no part in a computation of the dashboard
IdleViews ==
    /\ farmAnalysis = <<>>
    /\ yearlyTrend = <<>>
    /\ acc = <<>>
    /\ emitted = <<>>

\* The dashboard with a loaded Record Store and the recomputation timer
\* pending, the date filter enabled.
InitTS ==
    /\ allData \in OrderedDataSets(RecordsTS, MaxRecords)
    /\ filters \in FiltersTS
    /\ activeTab = "dashboard"
    /\ loading = TRUE
    /\ timer = <<[allData |-> allData, filters |-> filters]>>
    /\ chartData = <<>>
    /\ timeSeriesChartData = <<>>
    /\ IdleViews

SpecTS == InitTS /\ [][TimerFire]_vars

\* The categorical inputs: varieties A and B measured on the last day of 2023
\* and the first day of 2024; A measures 9.0 or 11.0 and B measures 10.0.
DaysCat == {DayNumber(2023, 12, 31), DayNumber(2024, 1, 1)}

RecordsCat ==
    {r \in [FARMLAND : Farms, VARIETY : Varieties, TAG_NO : {1},
            BRIX : {72, 80, 88}, MEASURE_DATE : DaysCat] :
        (r.BRIX = 80) <=> (r.VARIETY = "B")}

\* The selections of the categorical mode: the window is the one
\* handleFileParsed sets and is not enabled.
FiltersCat(data) ==
    [farmlands : FarmSelections, variety : {"ALL", "A", "B"},
     startDate : {formatDateToYYYYMMDD(data[1].MEASURE_DATE)},
     endDate : {formatDateToYYYYMMDD(data[Len(data)].MEASURE_DATE)},
     dateFilterEnabled : {FALSE}, year : {0, 2023, 2024}]

\* The selections of the time-series mode over the same two days, each date
\* input being empty or set
FiltersWindow ==
    [farmlands : FarmSelections, variety : {"ALL", "A", "B"},
     startDate : {0} \cup {formatDateToYYYYMMDD(d) : d \in DaysCat},
     endDate : {0} \cup {formatDateToYYYYMMDD(d) : d \in DaysCat},
     dateFilterEnabled : {TRUE}, year : {0}]

\* The dashboard with a loaded Record Store and the recomputation timer
\* pending, in either mode.
InitDash ==
    /\ allData \in OrderedDataSets(RecordsCat, MaxRecords)
    /\ filters \in FiltersCat(allData) \cup FiltersWindow
    /\ activeTab = "dashboard"
    /\ loading = TRUE
    /\ timer = <<[allData |-> allData, filters |-> filters]>>
    /\ chartData = <<>>
    /\ timeSeriesChartData = <<>>
    /\ IdleViews

SpecDash == InitDash /\ [][TimerFire]_vars

\* The selections of year, variety and date filter in every combination, the
\* window bounds being any of the two days: the year select keeps its value
\* while the date filter is enabled.
FiltersResolve ==
    [farmlands : {<<>>}, variety : {"ALL", "A", "B"},
     startDate : {formatDateToYYYYMMDD(d) : d \in DaysCat},
     endDate : {formatDateToYYYYMMDD(d) : d \in DaysCat},
     dateFilterEnabled : BOOLEAN, year : {0, 2023, 2024}]

\* The dashboard with a loaded Record Store and the recomputation timer
\* pending, for every combination of year, variety and date filter.
InitFilter ==
    /\ allData \in OrderedDataSets(RecordsCat, MaxRecords)
    /\ filters \in FiltersResolve
    /\ activeTab = "dashboard"
    /\ loading = TRUE
    /\ timer = <<[allData |-> allData, filters |-> filters]>>
    /\ chartData = <<>>
    /\ timeSeriesChartData = <<>>
    /\ IdleViews

SpecFilter == InitFilter /\ [][TimerFire]_vars

\* The filters handleFileParsed sets for a Record Store
ResetFilters(data) ==
    [farmlands |-> <<>>, variety |-> "ALL",
     startDate |-> formatDateToYYYYMMDD(data[1].MEASURE_DATE),
     endDate |-> formatDateToYYYYMMDD(data[Len(data)].MEASURE_DATE),
     dateFilterEnabled |-> FALSE, year |-> 0]

\* App once the dashboard has been computed for a loaded file and the user
\* has left the dashboard tab: no timer is pending.
DashboardLeft ==
    /\ filters = ResetFilters(allData)
    /\ activeTab = "analysis"
    /\ loading = FALSE
    /\ timer = <<>>
    /\ chartData = finalChartData(allData, filters)
    /\ timeSeriesChartData = <<>>

\* The records shown to FarmAnalysis: tags 0 (untagged), 1 and 2 on two days;
\* untagged records measure 12.0, the others 8.0 on the first day and 10.0 on
\* the second.
DaysFarm == {DayNumber(2024, 1, 1), DayNumber(2024, 1, 2)}

RecordsFarm ==
    {r \in [FARMLAND : Farms, VARIETY : {"A"}, TAG_NO : {0, 1, 2},
            BRIX : {64, 80, 96}, MEASURE_DATE : DaysFarm] :
        r.BRIX = (IF r.TAG_NO = 0 THEN 96
                  ELSE IF r.MEASURE_DATE = DayNumber(2024, 1, 1) THEN 64 ELSE 80)}

\* The states of FarmAnalysis before a render: no farm chosen yet or one of
\* the farms, each date input empty or set to a day, and no tag selected for
\* the detail view.
FarmAnalysisStates ==
    [selectedFarm : {""} \cup Farms,
     startDate : {0} \cup {formatDateToYYYYMMDD(d) : d \in DaysFarm},
     endDate : {0} \cup {formatDateToYYYYMMDD(d) : d \in DaysFarm},
     selectedTag : {<<>>},
     rendered : {FALSE}, yearlyAverages : {<<>>}, tagData : {<<>>},
     selectedTagDetails : {<<>>}]

\* The analysis tab with FarmAnalysis about to render
InitFarm ==
    /\ allData \in OrderedDataSets(RecordsFarm, MaxRecords)
    /\ DashboardLeft
    /\ farmAnalysis \in {<<st>> : st \in FarmAnalysisStates}
    /\ yearlyTrend = <<>>
    /\ acc = <<>>
    /\ emitted = <<>>

SpecFarm == InitFarm /\ [][FarmAnalysisRender]_vars

\* The records shown to YearlyTrendAnalysis: 1 March 2023 and the three days
\* from 29 February to 2 March 2024, measuring 8.0 or 10.0.
DaysTrend == {DayNumber(2023, 3, 1), DayNumber(2024, 2, 29),
              DayNumber(2024, 3, 1), DayNumber(2024, 3, 2)}

\* The largest number of records shown to YearlyTrendAnalysis
MaxTrendRecords == 4

RecordsTrend ==
    [FARMLAND : {"F1"}, VARIETY : Varieties, TAG_NO : {1},
     BRIX : {64, 80}, MEASURE_DATE : DaysTrend]

\* The states of YearlyTrendAnalysis before a render: no variety chosen yet
\* or one of the varieties.
YearlyTrendStates ==
    [selectedVariety : {""} \cup Varieties, rendered : {FALSE},
     memo : {TrendEmpty}]

\* YearlyTrendAnalysis about to render on the Record Store
InitTrend ==
    /\ allData \in OrderedDataSets(RecordsTrend, MaxTrendRecords)
    /\ DashboardLeft
    /\ yearlyTrend \in {<<st>> : st \in YearlyTrendStates}
    /\ farmAnalysis = <<>>
    /\ acc = <<>>
    /\ emitted = <<>>

SpecTrend == InitTrend /\ [][YearlyTrendRender]_vars

\* Every aggregator on its inputs: the dashboard in either mode, FarmAnalysis
\* and YearlyTrendAnalysis.
InitViews == InitDash \/ InitFarm \/ InitTrend

NextViews == TimerFire \/ FarmAnalysisRender \/ YearlyTrendRender

SpecViews == InitViews /\ [][NextViews]_vars

\* The selections of the dashboard that differ in the farms and in the mode
FiltersBuckets ==
    [farmlands : FarmSelections, variety : {"ALL"},
     startDate : {formatDateToYYYYMMDD(DayNumber(2023, 12, 31))},
     endDate : {formatDateToYYYYMMDD(DayNumber(2024, 1, 1))},
     dateFilterEnabled : BOOLEAN, year : {0}]

\* The dashboard with the recomputation timer pending, in either mode
InitBucketsDash ==
    /\ allData \in OrderedDataSets(RecordsCat, MaxRecords)
    /\ filters \in FiltersBuckets
    /\ activeTab = "dashboard"
    /\ loading = TRUE
    /\ timer = <<[allData |-> allData, filters |-> filters]>>
    /\ chartData = <<>>
    /\ timeSeriesChartData = <<>>
    /\ IdleViews

\* The states of FarmAnalysis before a render with farm F1 chosen, the date
\* range ending on the second day, and no tag or one of the tags selected
\* for the detail view (setSelectedTag on a click in the heatmap).
FarmDetailStates ==
    [selectedFarm : {"F1"},
     startDate : {0} \cup {formatDateToYYYYMMDD(d) : d \in DaysFarm},
     endDate : {formatDateToYYYYMMDD(DayNumber(2024, 1, 2))},
     selectedTag : {<<>>, <<1>>, <<2>>},
     rendered : {FALSE}, yearlyAverages : {<<>>}, tagData : {<<>>},
     selectedTagDetails : {<<>>}]

\* The analysis tab with FarmAnalysis about to render, a tag detail open or
\* not
InitBucketsFarm ==
    /\ allData \in OrderedDataSets(RecordsFarm, MaxRecords)
    /\ DashboardLeft
    /\ farmAnalysis \in {<<st>> : st \in FarmDetailStates}
    /\ yearlyTrend = <<>>
    /\ acc = <<>>
    /\ emitted = <<>>

\* Every aggregator that keeps buckets, on its inputs
InitBuckets == InitBucketsDash \/ InitBucketsFarm \/ InitTrend

SpecBuckets == InitBuckets /\ [][NextViews]_vars

\* The largest running sum, in eighths (1801 is 225.125), and the largest
\* number of records behind an average
MaxTotal == 1801
MaxCount == 25

\* App before any file is loaded
AppEmpty ==
    /\ allData = <<>>
    /\ filters = [farmlands |-> <<>>, variety |-> "ALL", startDate |-> 0,
                  endDate |-> 0, dateFilterEnabled |-> FALSE, year |-> 0]
    /\ activeTab = "dashboard"
    /\ loading = FALSE
    /\ timer = <<>>
    /\ chartData = <<>>
    /\ timeSeriesChartData = <<>>

----------------------------------------------------------------------------
(* handleFileParsed: the rows of a parsed CSV file become the Record Store. *)

\* The numbers of JavaScript that are not finite, written as integers beyond
\* every sweetness of the model: the largest integers stand for NaN and
\* +Infinity, the smallest for -Infinity.
NaN == 2147483646
Infinity == 2147483647
NegativeInfinity == 0 - Infinity

\* isNaN(x)
isNaN(x) == x = NaN

\* Number.isFinite(x)
isFinite(x) == x \notin {NaN, Infinity, NegativeInfinity}

\* parseFloat(row.BRIX) in eighths, for the cell texts of the model: a
\* decimal numeral gives its value, 'Infinity' and '-Infinity' give the
\* infinities, any other text gives NaN.
parseFloat(text) ==
    CASE text = "8.0" -> 64
      [] text = "9.0" -> 72
      [] text = "10.0" -> 80
      [] text = "Infinity" -> Infinity
      [] text = "-Infinity" -> NegativeInfinity
      [] OTHER -> NaN

\* String(x).trim() for the cell texts of the model
trim(text) ==
    CASE text = " F1 " -> "F1"
      [] text = "A " -> "A"
      [] OTHER -> text

\* The record of a row that passed the checks
FormattedRow(row, measureDate, brix) ==
    [FARMLAND |-> trim(row.FARMLAND), VARIETY |-> trim(row.VARIETY),
     TAG_NO |-> row.TAG_NO, BRIX |-> brix, MEASURE_DATE |-> measureDate]

\* if (!measureDate || isNaN(brix)) return null
ParsedRow(row, measureDate, brix) ==
    IF measureDate = <<>> \/ isNaN(brix) THEN <<>>
    ELSE <<FormattedRow(row, measureDate[1], brix)>>

\* The callback of parsedData.map: none (null) for a row with an empty
\* required cell, an unreadable date or a sweetness that is NaN
FormatRow(row) ==
    IF row.MEASURE_DATE = 0 \/ row.BRIX = "" \/ row.FARMLAND = "" \/ row.VARIETY = ""
    THEN <<>>
    ELSE ParsedRow(row, parseDateAsLocal(row.MEASURE_DATE), parseFloat(row.BRIX))

RECURSIVE FormatRows(_, _)
\* parsedData.map(...).filter(d => d !== null) from row i on
FormatRows(parsedData, i) ==
    IF i > Len(parsedData) THEN <<>>
    ELSE FormatRow(parsedData[i]) \o FormatRows(parsedData, i + 1)

RECURSIVE InsertByDate(_, _)
\* The record r put into the date-sorted arr after the records that are not
\* later than it (Array.prototype.sort is stable)
InsertByDate(arr, r) ==
    IF arr = <<>> THEN <<r>>
    ELSE IF r.MEASURE_DATE < Head(arr).MEASURE_DATE THEN <<r>> \o arr
         ELSE <<Head(arr)>> \o InsertByDate(Tail(arr), r)

\* Mutant of SortByDate: the records are left in the order of the rows.
SortByDateOmitted(arr, i, out) == arr

RECURSIVE SortByDate(_, _, _)
\* formattedData.sort((a, b) => a.MEASURE_DATE.getTime() - b.MEASURE_DATE.getTime())
SortByDate(arr, i, out) ==
    IF i > Len(arr) THEN out
    ELSE SortByDate(arr, i + 1, InsertByDate(out, arr[i]))

\* The state after a file without any valid row: the store and the chart
\* data were emptied before the rows were read, an error is shown, and the
\* effect, run again on the new store, cancels the timer and returns.
LoadRejected ==
    /\ allData' = <<>>
    /\ chartData' = <<>>
    /\ timeSeriesChartData' = <<>>
    /\ loading' = FALSE
    /\ timer' = <<>>
    /\ UNCHANGED <<filters, activeTab>>

\* Mutant of LoadAccepted: the chart data are not emptied.
LoadAcceptedChartsKept(formattedData) ==
    /\ allData' = formattedData
    /\ filters' = ResetFilters(formattedData)
    /\ activeTab' = "dashboard"
    /\ UNCHANGED <<chartData, timeSeriesChartData>>
    /\ loading' = TRUE
    /\ timer' = <<[allData |-> formattedData, filters |-> ResetFilters(formattedData)]>>

\* The state after a file with valid rows: the filters are reset, the sorted
\* records are the store, the dashboard is shown, and the effect, run again,
\* cancels the timer, sets loading and starts a timer on the new store.
LoadAccepted(formattedData) ==
    /\ allData' = formattedData
    /\ filters' = ResetFilters(formattedData)
    /\ activeTab' = "dashboard"
    /\ chartData' = <<>>
    /\ timeSeriesChartData' = <<>>
    /\ loading' = TRUE
    /\ timer' = <<[allData |-> formattedData, filters |-> ResetFilters(formattedData)]>>

\* handleFileParsed(parsedData), called by FileUpload when the file has been
\* parsed, together with the effect that follows the state changes.
handleFileParsed(parsedData) ==
    /\ IF FormatRows(parsedData, 1) = <<>>
       THEN LoadRejected
       ELSE LoadAccepted(SortByDate(FormatRows(parsedData, 1), 1, <<>>))
    /\ UNCHANGED <<farmAnalysis, yearlyTrend, acc, emitted>>

\* The largest number of rows of a file
MaxRows == 2

\* The rows of a file whose cells may be empty or hold a text that is not a
\* finite number
RawRows ==
    [MEASURE_DATE : {0, 20240101, 20240102},
     BRIX : {"", "8.0", "abc", "Infinity", "-Infinity"},
     FARMLAND : {" F1 "}, VARIETY : {"A "}, TAG_NO : {1, 2}]

\* The files of at most n rows drawn from R
Files(R, n) == UNION {[1..k -> R] : k \in 1..n}

\* App before any file is loaded, the other views idle
InitApp == AppEmpty /\ IdleViews

\* Any sequence of file loads
NextLoad == \E parsedData \in Files(RawRows, MaxRows) : handleFileParsed(parsedData)

SpecLoad == InitApp /\ [][NextLoad]_vars

----------------------------------------------------------------------------
(* Filters: the handlers of the inputs, and the effect that follows.       *)

\* Mutant of FilterChanged: the cleanup of the effect is left out, so a timer
\* that is pending stays, with the store and filters it closed over.
FilterChangedTimerKept(newFilters) ==
    /\ allData # <<>>
    /\ activeTab = "dashboard"
    /\ filters' = newFilters
    /\ loading' = TRUE
    /\ timer' = IF timer # <<>> THEN timer
                ELSE <<[allData |-> allData, filters |-> newFilters]>>
    /\ UNCHANGED <<allData, activeTab, chartData, timeSeriesChartData,
                   farmAnalysis, yearlyTrend, acc, emitted>>

\* onFilterChange(newFilters) from the Filters panel, which is shown for a
\* loaded store on the dashboard tab: the effect, run again on the new
\* filters, cancels the timer, sets loading and starts a timer.
FilterChanged(newFilters) ==
    /\ allData # <<>>
    /\ activeTab = "dashboard"
    /\ filters' = newFilters
    /\ loading' = TRUE
    /\ timer' = <<[allData |-> allData, filters |-> newFilters]>>
    /\ UNCHANGED <<allData, activeTab, chartData, timeSeriesChartData,
                   farmAnalysis, yearlyTrend, acc, emitted>>

\* handleInputChange: onFilterChange({ ...filters, [name]: value }), the
\* value being the checked state for a checkbox
handleInputChange(name, value) ==
    FilterChanged([filters EXCEPT ![name] = value])

\* currentFarmlands.filter(farm => farm !== value)
WithoutFarm(currentFarmlands, value) ==
    SelectSeq(currentFarmlands, LAMBDA farm : farm # value)

\* Mutant of newFarmlands: a checked farm is appended whatever the number of
\* farms already selected.
newFarmlandsUnbounded(currentFarmlands, value, checked) ==
    IF checked THEN <<Append(currentFarmlands, value)>>
    ELSE <<WithoutFarm(currentFarmlands, value)>>

\* newFarmlands of handleFarmlandChange: none when the handler returns
\* early, a sixth farm being refused
newFarmlands(currentFarmlands, value, checked) ==
    IF checked
    THEN IF Len(currentFarmlands) < 5
         THEN <<Append(currentFarmlands, value)>>
         ELSE <<>>
    ELSE <<WithoutFarm(currentFarmlands, value)>>

\* The handler once newFarmlands is known: return, or onFilterChange
FarmlandsChanged(new) ==
    IF new = <<>>
    THEN allData # <<>> /\ activeTab = "dashboard" /\ UNCHANGED vars
    ELSE FilterChanged([filters EXCEPT !.farmlands = new[1]])

\* handleFarmlandChange for the checkbox of farm value
handleFarmlandChange(value, checked) ==
    FarmlandsChanged(newFarmlands(filters.farmlands, value, checked))

\* farmerList: the farms of the store
farmerList == {allData[i].FARMLAND : i \in 1..Len(allData)}

\* A click on the checkbox of a farm of farmerList: the checkbox is
\* controlled, so the event carries the opposite of its present state.
FarmlandClicked ==
    \E value \in farmerList :
        handleFarmlandChange(value, ~Includes(filters.farmlands, value))

\* A click on the checkbox of the date filter
DateFilterClicked ==
    handleInputChange("dateFilterEnabled", ~filters.dateFilterEnabled)

\* The rows of files whose cells are all readable or whose date is empty,
\* measured on the last day of 2023 and the first of 2024
StoreRows ==
    [MEASURE_DATE : {0, 20231231, 20240101}, BRIX : {"8.0", "10.0"},
     FARMLAND : {" F1 "}, VARIETY : {"A "}, TAG_NO : {1}]

\* File loads in any order, the date filter switched on and off, and the
\* timer
NextStore ==
    \/ \E parsedData \in Files(StoreRows, MaxRows) : handleFileParsed(parsedData)
    \/ DateFilterClicked
    \/ TimerFire

SpecStore == InitApp /\ [][NextStore]_vars

\* One row of farm, measured 8.0 for variety A on 2024-01-01
FarmRow(farm) ==
    [MEASURE_DATE |-> 20240101, BRIX |-> "8.0", FARMLAND |-> farm,
     VARIETY |-> "A", TAG_NO |-> 1]

\* A file of six farms and a file of two
FarmFiles ==
    {<<FarmRow("F1"), FarmRow("F2"), FarmRow("F3"), FarmRow("F4"), FarmRow("F5"),
       FarmRow("F6")>>,
     <<FarmRow("F2"), FarmRow("F1")>>}

\* File loads, clicks on the farms' checkboxes, and the timer
NextFarms ==
    \/ \E parsedData \in FarmFiles : handleFileParsed(parsedData)
    \/ FarmlandClicked
    \/ TimerFire

SpecFarms == InitApp /\ [][NextFarms]_vars

\* A running sum and count about to be emitted as an average
InitRound ==
    /\ acc \in {<<[total |-> t, count |-> c]>> : t \in 0..MaxTotal, c \in 1..MaxCount}
    /\ emitted = <<>>
    /\ AppEmpty
    /\ farmAnalysis = <<>>
    /\ yearlyTrend = <<>>

SpecRound == InitRound /\ [][EmitAverage]_vars

----------------------------------------------------------------------------
(* The filtered subset and its plain means, stated on the Record Store.    *)

\* The selections of the dashboard without farms: the tracker of the last
\* known overall value does not depend on the farms.
FiltersCarry == {f \in FiltersTS : f.farmlands = <<>>}

\* The dashboard with a loaded Record Store and the recomputation timer
\* pending, the date filter enabled, no farm selected.
InitCarry ==
    /\ allData \in OrderedDataSets(RecordsTS, MaxRecords)
    /\ filters \in FiltersCarry
    /\ activeTab = "dashboard"
    /\ loading = TRUE
    /\ timer = <<[allData |-> allData, filters |-> filters]>>
    /\ chartData = <<>>
    /\ timeSeriesChartData = <<>>
    /\ IdleViews

SpecCarry == InitCarry /\ [][TimerFire]_vars

\* The selections of the dashboard with farms selected and every variety
FiltersFarmSeries ==
    {f \in FiltersTS : f.farmlands # <<>> /\ f.variety = "ALL"}

\* The dashboard with a loaded Record Store and the recomputation timer
\* pending, the date filter enabled, farms selected.
InitFarmSeries ==
    /\ allData \in OrderedDataSets(RecordsTS, MaxRecords)
    /\ filters \in FiltersFarmSeries
    /\ activeTab = "dashboard"
    /\ loading = TRUE
    /\ timer = <<[allData |-> allData, filters |-> filters]>>
    /\ chartData = <<>>
    /\ timeSeriesChartData = <<>>
    /\ IdleViews

SpecFarmSeries == InitFarmSeries /\ [][TimerFire]_vars

\* The positions of the records that pass the year and variety selection
FilteredIdx ==
    {i \in 1..Len(allData) :
        /\ (filters.dateFilterEnabled \/ filters.year = 0
              \/ getFullYear(allData[i].MEASURE_DATE) = filters.year)
        /\ (filters.variety = "ALL" \/ allData[i].VARIETY = filters.variety)}

RECURSIVE SumBrix(_)
SumBrix(I) ==
    IF I = {} THEN 0
    ELSE LET i == CHOOSE x \in I : TRUE
         IN  allData[i].BRIX + SumBrix(I \ {i})

\* The mean sweetness of the records at the positions I, to two decimals
Mean(I) == ToFixed2(SumBrix(I), Cardinality(I))

\* The filtered records dated d
OnDay(d) == {i \in FilteredIdx : allData[i].MEASURE_DATE = d}

\* The filtered records of the year of d dated d or earlier
YearToDate(d) ==
    {i \in FilteredIdx :
        /\ getFullYear(allData[i].MEASURE_DATE) = getFullYear(d)
        /\ allData[i].MEASURE_DATE <= d}

FilteredYears == {getFullYear(allData[i].MEASURE_DATE) : i \in FilteredIdx}

\* The day of a point of the time series
PointDay(p) == DayNumber(p["date"] \div 10000, (p["date"] \div 100) % 100,
                         p["date"] % 100)

\* The time-series computation has run on the present store and selection
TSDone == timer = <<>> /\ filters.dateFilterEnabled

----------------------------------------------------------------------------
(* Claims on the Cumulative Time-Series Builder.                           *)

\* C1 (year reset): when the filtered records span more than one calendar
\* year, the point of a day that is the first recorded day of its year
\* carries as overall value that day's own average: nothing of an earlier
\* year is left in the running sums.
C1_YearReset ==
    (TSDone /\ Cardinality(FilteredYears) > 1) =>
        \A k \in 1..Len(timeSeriesChartData) :
            LET p == timeSeriesChartData[k]
                d == PointDay(p)
            IN  (OnDay(d) # {} /\ YearToDate(d) = OnDay(d)) =>
                    /\ OverallKey \in DOMAIN p
                    /\ p[OverallKey] = Mean(OnDay(d))

\* The example of the specification: 10.0 on 2023-12-31 and 8.0 on
\* 2024-01-01 give 8.0 on 2024-01-01.
C1_Witness ==
    /\ TSDone
    /\ \E i \in FilteredIdx : /\ allData[i].MEASURE_DATE = DayNumber(2023, 12, 31)
                              /\ allData[i].BRIX = 80
    /\ \E k \in 1..Len(timeSeriesChartData) :
          /\ timeSeriesChartData[k]["date"] = 20240101
          /\ OverallKey \in DOMAIN timeSeriesChartData[k]
          /\ timeSeriesChartData[k][OverallKey] = 800

C3_WeightedRunningMean ==
    TSDone =>
        \A k \in 1..Len(timeSeriesChartData) :
            LET p == timeSeriesChartData[k]
            IN  OverallKey \in DOMAIN p =>
                    /\ YearToDate(PointDay(p)) # {}
                    /\ p[OverallKey] = Mean(YearToDate(PointDay(p)))

\* A value that averages three records of one year, spread over several days
\* with different numbers of records.
C3_Witness ==
    /\ TSDone
    /\ \E k \in 1..Len(timeSeriesChartData) :
          LET p == timeSeriesChartData[k]
              d == PointDay(p)
          IN  /\ OverallKey \in DOMAIN p
              /\ Cardinality(YearToDate(d)) = 3
              /\ Cardinality(OnDay(d)) = 2
              /\ p[OverallKey] = 867

\* C4 (dense output): for a window with start <= end the result has one point
\* for every calendar day from start to end, in ascending order.
C4_DenseOutput ==
    LET start == parseDateAsLocal(filters.startDate)
        end   == parseDateAsLocal(filters.endDate)
    IN  (TSDone /\ start # <<>> /\ end # <<>> /\ start[1] <= end[1]) =>
            /\ Len(timeSeriesChartData) = end[1] - start[1] + 1
            /\ \A k \in 1..Len(timeSeriesChartData) :
                  timeSeriesChartData[k]["date"] =
                      formatDateToYYYYMMDD(start[1] + k - 1)

\* A window of at least three days containing a day without any record
C4_Witness ==
    /\ TSDone
    /\ Len(timeSeriesChartData) >= 3
    /\ \E k \in 1..Len(timeSeriesChartData) :
          OnDay(PointDay(timeSeriesChartData[k])) = {}

\* C5 (invalid window): a window whose end precedes its start gives the empty
\* sequence.
C5_InvalidWindow ==
    LET start == parseDateAsLocal(filters.startDate)
        end   == parseDateAsLocal(filters.endDate)
    IN  (TSDone /\ start # <<>> /\ end # <<>> /\ end[1] < start[1]) =>
            timeSeriesChartData = <<>>

\* The computation has run on a reversed window that contains records
C5_Witness ==
    /\ TSDone
    /\ loading = FALSE
    /\ PointDay([date |-> filters.endDate]) < PointDay([date |-> filters.startDate])
    /\ \E i \in FilteredIdx :
          /\ PointDay([date |-> filters.endDate]) <= allData[i].MEASURE_DATE
          /\ allData[i].MEASURE_DATE <= PointDay([date |-> filters.startDate])

----------------------------------------------------------------------------
(* Claims on empty inputs, the Category Aggregator, the Day-of-Year        *)
(* Normalizer, the Tag Heatmap Aggregator and rounding.                    *)

\* The categorical computation has run on the present store and selection
CatDone ==
    timer = <<>> /\ ~filters.dateFilterEnabled /\ activeTab = "dashboard"

FarmDone == farmAnalysis # <<>> /\ farmAnalysis[1].rendered

TrendDone == yearlyTrend # <<>> /\ yearlyTrend[1].rendered

\* The records of the selected farm dated within the date range, when both
\* of its bounds are set
FarmIdx ==
    {i \in 1..Len(allData) :
        /\ allData[i].FARMLAND = farmAnalysis[1].selectedFarm
        /\ \/ farmAnalysis[1].startDate = 0
           \/ farmAnalysis[1].endDate = 0
           \/ /\ PointDay([date |-> farmAnalysis[1].startDate]) <= allData[i].MEASURE_DATE
              /\ allData[i].MEASURE_DATE <= PointDay([date |-> farmAnalysis[1].endDate])}

\* The records of the selected variety
TrendIdx ==
    {i \in 1..Len(allData) : allData[i].VARIETY = yearlyTrend[1].selectedVariety}

\* The number of days of the window of the dashboard, 0 when a bound is
\* missing or the end precedes the start
WindowDays ==
    IF filters.startDate = 0 \/ filters.endDate = 0 THEN 0
    ELSE IF PointDay([date |-> filters.endDate]) < PointDay([date |-> filters.startDate])
         THEN 0
         ELSE PointDay([date |-> filters.endDate])
                  - PointDay([date |-> filters.startDate]) + 1

VarietyIdx(v) == {i \in FilteredIdx : allData[i].VARIETY = v}

FilteredVarieties == {allData[i].VARIETY : i \in FilteredIdx}

\* C7 (category completeness): the categorical result has exactly one point
\* for each variety of the filtered subset and no other point, and each point
\* carries as overall value the two-decimal mean of its variety's records.
C7_CategoryCompleteness ==
    CatDone =>
        /\ Len(chartData) = Cardinality(FilteredVarieties)
        /\ \A v \in FilteredVarieties :
              \E k \in 1..Len(chartData) : chartData[k]["variety"] = v
        /\ \A k \in 1..Len(chartData) :
              /\ chartData[k]["variety"] \in FilteredVarieties
              /\ OverallKey \in DOMAIN chartData[k]
              /\ chartData[k][OverallKey] = Mean(VarietyIdx(chartData[k]["variety"]))

\* The example of the specification: A at 9.0 and 11.0 and B at 10.0 give the
\* two points A with 10.0 and B with 10.0.
C7_Witness ==
    /\ CatDone
    /\ Cardinality(FilteredIdx) = 3
    /\ {<<allData[i].VARIETY, allData[i].BRIX>> : i \in FilteredIdx}
           = {<<"A", 72>>, <<"A", 88>>, <<"B", 80>>}
    /\ Len(chartData) = 2
    /\ chartData[1]["variety"] = "A" /\ chartData[1][OverallKey] = 1000
    /\ chartData[2]["variety"] = "B" /\ chartData[2][OverallKey] = 1000

\* The month and day of a date as the number MMDD
MonthDay(date) == 100 * Civil(date)[2] + Civil(date)[3]

\* C8 (day-of-year alignment): every record of the selected variety is under
\* the point labelled with its month and day, which carries a value keyed by
\* the record's year, and the points come in strictly ascending order of
\* month and day, so no label occurs twice.
C8_DayOfYearAlignment ==
    TrendDone =>
        /\ \A i \in TrendIdx :
              \E k \in 1..Len(yearlyTrend[1].memo.chartData) :
                  /\ yearlyTrend[1].memo.chartData[k]["name"]
                         = MonthDay(allData[i].MEASURE_DATE)
                  /\ ToString(getFullYear(allData[i].MEASURE_DATE))
                         \in DOMAIN yearlyTrend[1].memo.chartData[k]
        /\ \A k \in 1..(Len(yearlyTrend[1].memo.chartData) - 1) :
              yearlyTrend[1].memo.chartData[k]["name"]
                  < yearlyTrend[1].memo.chartData[k + 1]["name"]

\* The example of the specification: 2023-03-01 and 2024-03-01 with different
\* values under the one label 03-01, between 02-29 and 03-02.
C8_Witness ==
    /\ TrendDone
    /\ Len(yearlyTrend[1].memo.chartData) = 3
    /\ yearlyTrend[1].memo.chartData[1]["name"] = 229
    /\ yearlyTrend[1].memo.chartData[2]["name"] = 301
    /\ yearlyTrend[1].memo.chartData[3]["name"] = 302
    /\ DOMAIN yearlyTrend[1].memo.chartData[2] = {"name", "sortValue", "2023", "2024"}
    /\ yearlyTrend[1].memo.chartData[2]["2023"] # yearlyTrend[1].memo.chartData[2]["2024"]

\* The records of the farm and date range that carry tag t
TagIdx(t) == {i \in FarmIdx : allData[i].TAG_NO = t}

\* C9 (tag exclusion): the tag heatmap has no entry for tag 0, and the average
\* of each entry is the mean of the records carrying that tag alone.
C9_TagExclusion ==
    FarmDone =>
        \A k \in 1..Len(farmAnalysis[1].tagData) :
            /\ farmAnalysis[1].tagData[k].tag # 0
            /\ TagIdx(farmAnalysis[1].tagData[k].tag) # {}
            /\ farmAnalysis[1].tagData[k].avg
                   = Mean(TagIdx(farmAnalysis[1].tagData[k].tag))

\* The heatmap of a farm and date range with an untagged record and a
\* tagged one
C9_Witness ==
    /\ FarmDone
    /\ TagIdx(0) # {}
    /\ farmAnalysis[1].tagData # <<>>

\* sum / count rounded half-up to hundredths, the sum being in eighths
HalfUp(total, count) == (200 * total + 8 * count) \div (16 * count)

\* C10 (rounding boundary): every emitted average is the exact quotient
\* sum / count rounded half-up to two decimals.
C10_RoundHalfUp ==
    emitted # <<>> => emitted[1] = HalfUp(acc[1].total, acc[1].count)

----------------------------------------------------------------------------
(* Further claims on the Cumulative Time-Series Builder.                   *)

\* C18 (overall presence, MAX_GAP_DAYS = 0): the point of a window day
\* carries the overall key exactly when the filtered subset has a record
\* dated that day; a value of an earlier day is never carried forward.
C18_OverallPresence ==
    TSDone =>
        \A k \in 1..Len(timeSeriesChartData) :
            OverallKey \in DOMAIN timeSeriesChartData[k] <=>
                OnDay(PointDay(timeSeriesChartData[k])) # {}

\* A day without records that follows, in the same year, a day with records:
\* the earlier day has an overall value and the later one has none.
C18_Witness ==
    /\ TSDone
    /\ \E k \in 1..(Len(timeSeriesChartData) - 1) :
          /\ OverallKey \in DOMAIN timeSeriesChartData[k]
          /\ OverallKey \notin DOMAIN timeSeriesChartData[k + 1]
          /\ getFullYear(PointDay(timeSeriesChartData[k])) =
                 getFullYear(PointDay(timeSeriesChartData[k + 1]))

\* The filtered records of farm dated d or earlier in the year of d
FarmYearToDate(farm, d) == {i \in YearToDate(d) : allData[i].FARMLAND = farm}

ComputedOf(daily) ==
    computedAveragesMap(SortAsc(DOMAIN daily), 1, daily, filters.farmlands,
                        WalkInit)

\* The Map of daily aggregates of the present store and selection
DailyNow ==
    dailyAggregates(filteredBase(allData, filters), 1, filters.farmlands, <<>>)

ComputedNow == ComputedOf(DailyNow)

RECURSIVE TrackerAtHead(_, _, _)
\* The tracker of the last known overall value when the window loop starting
\* at start reaches its k-th day: the result of the backward seed scan for
\* k = 1, the tracker left by the previous day otherwise.
TrackerAtHead(k, start, computed) ==
    IF k = 1
    THEN SeedScan(SortAsc(DOMAIN DailyNow), Len(SortAsc(DOMAIN DailyNow)),
                  start, computed)
    ELSE FillDay(start + k - 2, computed, filters.farmlands,
                 TrackerAtHead(k - 1, start, computed)).lk

\* The tracker as the k-th day uses it, after the test of the year
TrackerInUse(k, start, computed) ==
    LastKnownInYear(TrackerAtHead(k, start, computed), YearStr(start + k - 1))

\* A non-empty tracker holds a date of the year of day that is not after day
TrackerWithinYear(lk, day) ==
    lk.lastKnownOverall # <<>> =>
        /\ lk.lastDateOverall # <<>>
        /\ getFullYear(lk.lastDateOverall[1]) = getFullYear(day)
        /\ lk.lastDateOverall[1] <= day

\* The filtered records of the year of start dated before start
SeedIdx(start) ==
    {i \in FilteredIdx : /\ getFullYear(allData[i].MEASURE_DATE) = getFullYear(start)
                         /\ allData[i].MEASURE_DATE < start}

\* The seed is the value of the latest recorded date before start within the
\* year of start, and is empty when there is none.
SeedAsStated(seed, start) ==
    IF SeedIdx(start) = {}
    THEN seed.lastKnownOverall = <<>>
    ELSE /\ seed.lastDateOverall # <<>>
         /\ seed.lastDateOverall[1] \in {allData[i].MEASURE_DATE : i \in SeedIdx(start)}
         /\ \A i \in SeedIdx(start) : allData[i].MEASURE_DATE <= seed.lastDateOverall[1]
         /\ seed.lastKnownOverall = <<Mean(YearToDate(seed.lastDateOverall[1]))>>

\* The claim on the loop from start to end over the Map computed
NoCrossYearCarry(start, end, computed) ==
    /\ SeedAsStated(TrackerAtHead(1, start, computed), start)
    /\ TrackerWithinYear(TrackerAtHead(1, start, computed), start)
    /\ \A k \in 1..(end - start + 1) :
          /\ TrackerWithinYear(TrackerInUse(k, start, computed), start + k - 1)
          /\ TrackerWithinYear(
                 Remember(start + k - 1,
                          ComputedGet(computed, formatDateToYYYYMMDD(start + k - 1)),
                          TrackerInUse(k, start, computed)),
                 start + k - 1)

\* The bounds of the window of the present selection
WindowNow ==
    WindowBounds(parseDateAsLocal(filters.startDate),
                 parseDateAsLocal(filters.endDate))

\* C20 (no cross-year carry-forward): after the backward seed scan and on
\* every day of the window loop, a non-empty last-known overall value was
\* computed for a date of the same calendar year as the current day and not
\* after it; the seed is the value of the latest recorded date before the
\* window start within the start's year, and is empty when there is none.
C20_NoCrossYearCarry ==
    (TSDone /\ WindowNow # <<>>) =>
        NoCrossYearCarry(WindowNow[1], WindowNow[2], ComputedNow)

\* A window from 2023-12-31 into 2024 with a record on 2023-12-31: the
\* tracker holds that day's value when the day ends and is empty when
\* 2024-01-01 uses it.
C20_Witness ==
    /\ TSDone
    /\ WindowNow # <<>>
    /\ WindowNow[1] = DayNumber(2023, 12, 31)
    /\ WindowNow[2] >= DayNumber(2024, 1, 1)
    /\ OnDay(DayNumber(2023, 12, 31)) # {}
    /\ TrackerAtHead(2, WindowNow[1], ComputedNow).lastKnownOverall # <<>>
    /\ TrackerInUse(2, WindowNow[1], ComputedNow).lastKnownOverall = <<>>

----------------------------------------------------------------------------
(* Claims on the Filter Resolver and on the date window.                   *)

RECURSIVE Pick(_, _)
\* The records of the store at the positions I from position i on, in the
\* order of the store
Pick(I, i) ==
    IF i > Len(allData) THEN <<>>
    ELSE IF i \in I THEN <<allData[i]>> \o Pick(I, i + 1)
         ELSE Pick(I, i + 1)

\* The computation of the dashboard has run on the present store and selection
DashDone == timer = <<>> /\ activeTab = "dashboard" /\ allData # <<>>

\* The outputs of the dashboard are those of the aggregators on the subset
OutputsFrom(subset) ==
    IF filters.dateFilterEnabled
    THEN timeSeriesChartData =
             FromDaily(dailyAggregates(subset, 1, filters.farmlands, <<>>), filters)
    ELSE chartData =
             FromVarietyMap(dataByVariety(subset, 1, filters.farmlands,
                                          [map |-> <<>>, order |-> <<>>]),
                            filters.farmlands)

\* C12 (Filter Resolver): the filtered subset is exactly the records, in the
\* order of the store, whose year is the selected one when the date filter is
\* off and a year is selected, and whose variety is the selected one when a
\* variety is selected; with the date filter on the year has no effect; the
\* outputs are computed from that subset and the store is left as it is.
C12_FilterResolver ==
    /\ [](DashDone => /\ filteredBase(allData, filters) = Pick(FilteredIdx, 1)
                      /\ OutputsFrom(Pick(FilteredIdx, 1)))
    /\ [][allData' = allData]_vars

\* The date filter is on, the year 2024 is selected, and the record of
\* 2023-12-31 is still in the subset: its day has an overall value.
C12_Witness ==
    /\ DashDone
    /\ filters.dateFilterEnabled
    /\ filters.year = 2024
    /\ filters.variety = "A"
    /\ \E i \in FilteredIdx : allData[i].MEASURE_DATE = DayNumber(2023, 12, 31)
    /\ \E i \in 1..Len(allData) : i \notin FilteredIdx
    /\ \E k \in 1..Len(timeSeriesChartData) :
          /\ timeSeriesChartData[k]["date"] = 20231231
          /\ OverallKey \in DOMAIN timeSeriesChartData[k]

\* The filtered records dated within the window, both bounds included
WindowIdx ==
    {i \in FilteredIdx :
        /\ PointDay([date |-> filters.startDate]) <= allData[i].MEASURE_DATE
        /\ allData[i].MEASURE_DATE <= PointDay([date |-> filters.endDate])}

WindowVarieties == {allData[i].VARIETY : i \in WindowIdx}

\* C13 (date window in categorical mode), as stated: with the date filter
\* enabled the categorical result has one point for each variety of the
\* filtered records dated within the window, carrying the two-decimal mean of
\* those records.
C13_WindowedCategories ==
    (DashDone /\ filters.dateFilterEnabled) =>
        /\ Len(chartData) = Cardinality(WindowVarieties)
        /\ \A k \in 1..Len(chartData) :
              /\ chartData[k]["variety"] \in WindowVarieties
              /\ OverallKey \in DOMAIN chartData[k]
              /\ chartData[k][OverallKey] =
                     Mean({i \in WindowIdx :
                              allData[i].VARIETY = chartData[k]["variety"]})

\* C13 (date window in categorical mode), as amended: with the date filter
\* enabled the Category Aggregator is not run and the categorical result is
\* empty, the Cumulative Time-Series Builder running instead; with the date
\* filter disabled the categorical result covers the whole filtered subset,
\* whatever the window bounds hold.
C13_NoWindowInCategories ==
    /\ (DashDone /\ filters.dateFilterEnabled) => chartData = <<>>
    /\ (DashDone /\ ~filters.dateFilterEnabled) =>
          /\ timeSeriesChartData = <<>>
          /\ Len(chartData) = Cardinality(FilteredVarieties)
          /\ \A k \in 1..Len(chartData) :
                /\ chartData[k]["variety"] \in FilteredVarieties
                /\ OverallKey \in DOMAIN chartData[k]
                /\ chartData[k][OverallKey] =
                       Mean(VarietyIdx(chartData[k]["variety"]))

\* The date filter is enabled over a window that holds records of two
\* varieties: the categorical result is empty and the time series is not.
C13_Witness ==
    /\ DashDone
    /\ filters.dateFilterEnabled
    /\ Cardinality(WindowVarieties) = 2
    /\ chartData = <<>>
    /\ timeSeriesChartData # <<>>

----------------------------------------------------------------------------
(* Claim on the buckets of the aggregators.                                *)

RECURSIVE WalkStateAfter(_, _, _, _)
\* The state of the cumulative walk after the first i of the sorted dates
WalkStateAfter(sortedDates, i, daily, farmlands) ==
    IF i = 0 THEN WalkInit
    ELSE WalkDate(WalkStateAfter(sortedDates, i - 1, daily, farmlands),
                  daily[sortedDates[i]], farmlands, sortedDates[i])

\* The keys of a selected farm are on a bucket only with a count of at least
\* one and a record of that farm behind them.
FarmKeysCounted(agg, I) ==
    \A j \in 1..Len(filters.farmlands) :
        (filters.farmlands[j] \o "_count") \in DOMAIN agg =>
            /\ agg[filters.farmlands[j] \o "_count"] >= 1
            /\ \E i \in I : allData[i].FARMLAND = filters.farmlands[j]

\* Every day entry has a record behind it and a count of at least one
DayEntriesCounted(daily) ==
    \A dateStr \in DOMAIN daily :
        /\ daily[dateStr]["daily_count"] >= 1
        /\ daily[dateStr]["daily_count"] =
               Cardinality(OnDay(PointDay([date |-> dateStr])))
        /\ FarmKeysCounted(daily[dateStr], OnDay(PointDay([date |-> dateStr])))

\* At each date of the walk the overall tracker, and the tracker of every
\* farm whose average is computed on that date, has a count of at least one.
TrackersCounted(daily, sortedDates) ==
    \A i \in 1..Len(sortedDates) :
        /\ WalkStateAfter(sortedDates, i, daily, filters.farmlands).cumulativeCount >= 1
        /\ \A j \in 1..Len(filters.farmlands) :
              FarmHasData(daily[sortedDates[i]], filters.farmlands[j] \o "_total",
                          filters.farmlands[j] \o "_count") =>
                  WalkStateAfter(sortedDates, i, daily, filters.farmlands)
                      .farmCumulativeStats[filters.farmlands[j]].count >= 1

\* Every variety bucket has a record behind it and a count of at least one
VarietyBucketsCounted(byVar) ==
    \A v \in DOMAIN byVar :
        /\ byVar[v]["overall_count"] >= 1
        /\ byVar[v]["overall_count"] = Cardinality(VarietyIdx(v))
        /\ FarmKeysCounted(byVar[v], VarietyIdx(v))

\* Every entry of a Map key -> { sum, count } has a count of at least one
EntriesCounted(m) == \A k \in DOMAIN m : m[k].count >= 1

\* The records FarmAnalysis keeps in its date range
FarmFilteredNow ==
    filteredData(farmData(allData, farmAnalysis[1].selectedFarm),
                 farmAnalysis[1].startDate, farmAnalysis[1].endDate)

\* The buckets of FarmAnalysis: per tag, per year, and per day of the selected
\* tag
FarmBucketsCounted ==
    /\ EntriesCounted(tagMap(FarmFilteredNow, 1, <<>>))
    /\ \A t \in DOMAIN tagMap(FarmFilteredNow, 1, <<>>) : TagIdx(t) # {}
    /\ EntriesCounted(yearMap(farmData(allData, farmAnalysis[1].selectedFarm), 1, <<>>))
    /\ farmAnalysis[1].selectedTag # <<>> =>
          EntriesCounted(dailyMap(tagSpecificData(FarmFilteredNow,
                                                  farmAnalysis[1].selectedTag[1]),
                                  1, <<>>))
    /\ \A k \in 1..Len(farmAnalysis[1].selectedTagDetails) :
          farmAnalysis[1].selectedTagDetails[k].count >= 1

\* The buckets of YearlyTrendAnalysis: the records of each year found and the
\* days of each year
TrendBucketsCounted(filtered) ==
    \A k \in 1..Len(yearsFound(filtered)) :
        /\ Len(yearData(filtered, yearsFound(filtered)[k])) >= 1
        /\ EntriesCounted(dailyAgg(yearData(filtered, yearsFound(filtered)[k]), 1,
                                   [map |-> <<>>, order |-> <<>>]).map)

\* C14 (no arithmetic on an empty bucket): in every aggregator a day entry, a
\* variety bucket, a farm's keys, a tag, year or day entry exists only with a
\* contributing record, and wherever an average is computed (buckets, overall
\* and farm cumulative trackers) the count is at least one.
C14_NoEmptyBucket ==
    /\ (DashDone /\ filters.dateFilterEnabled) =>
          /\ DayEntriesCounted(DailyNow)
          /\ TrackersCounted(DailyNow, SortAsc(DOMAIN DailyNow))
    /\ (DashDone /\ ~filters.dateFilterEnabled) =>
          VarietyBucketsCounted(
              dataByVariety(filteredBase(allData, filters), 1, filters.farmlands,
                            [map |-> <<>>, order |-> <<>>]).map)
    /\ FarmDone => FarmBucketsCounted
    /\ TrendDone =>
          TrendBucketsCounted(trendFiltered(allData, yearlyTrend[1].selectedVariety))

\* The time series has run with farm F1 selected on a store where a day has
\* records of farm F2 only: the day has an entry and F1 has no keys on it.
C14_Witness ==
    /\ DashDone
    /\ filters.dateFilterEnabled
    /\ Includes(filters.farmlands, "F1")
    /\ \E dateStr \in DOMAIN DailyNow :
          /\ "F1_count" \notin DOMAIN DailyNow[dateStr]
          /\ DailyNow[dateStr]["daily_count"] = 2
    /\ \E dateStr \in DOMAIN DailyNow : "F1_count" \in DOMAIN DailyNow[dateStr]

----------------------------------------------------------------------------
(* Claims on the Record Store and on the selection of farms.               *)

\* C15 (non-finite sweetness is excluded): every record of the Record Store
\* has a finite sweetness.
C15_FiniteSweetness ==
    \A i \in 1..Len(allData) : isFinite(allData[i].BRIX)

\* C16 (Record Store ordering): after any sequence of file loads the Record
\* Store, and the store every pending or running aggregation reads, is sorted
\* ascending by date.
C16_StoreSorted ==
    /\ SortedByDate(allData)
    /\ timer # <<>> => SortedByDate(timer[1].allData)

\* The time series has been computed on a store of two records of different
\* days, the later record being the one that measures 8.0.
C16_Witness ==
    /\ DashDone
    /\ Len(allData) = 2
    /\ allData[1].MEASURE_DATE < allData[2].MEASURE_DATE
    /\ allData[1].BRIX = 80
    /\ allData[2].BRIX = 64
    /\ filters.dateFilterEnabled
    /\ Len(timeSeriesChartData) = 2

\* The farms are selected without repetition
NoDuplicates(farmlands) ==
    \A i, j \in 1..Len(farmlands) : farmlands[i] = farmlands[j] => i = j

\* A step from five selected farms leaves the filters as they are, or
\* removes one farm and leaves every other field, or is a file load that
\* resets the filters.
FromFiveFarms ==
    Len(filters.farmlands) = 5 =>
        \/ filters' = filters
        \/ /\ Len(filters'.farmlands) = 4
           /\ \A i \in 1..4 : Includes(filters.farmlands, filters'.farmlands[i])
           /\ filters' = [filters EXCEPT !.farmlands = filters'.farmlands]
        \/ /\ allData' # <<>>
           /\ filters' = ResetFilters(allData')

\* C17 (farm selection bound): after any sequence of clicks on the farms'
\* checkboxes and file loads at most 5 farms are selected, none twice; and
\* from five selected farms no step adds a farm or changes another field of
\* the filters, a click on a sixth farm leaving the filters as they are.
C17_FarmSelectionBound ==
    /\ [](Len(filters.farmlands) <= 5 /\ NoDuplicates(filters.farmlands))
    /\ [][FromFiveFarms]_vars

\* Five of six farms are selected and the chart has been computed for them
C17_Witness ==
    /\ DashDone
    /\ Len(filters.farmlands) = 5
    /\ Cardinality(farmerList) = 6
    /\ chartData # <<>>
    /\ Cardinality(DOMAIN chartData[1]) = 7

----------------------------------------------------------------------------
(* Claims on the independence of the series from the window and from the   *)
(* selection of farms.                                                     *)

\* The record dates of the inputs of the window claim: the last day of 2023
\* and the first two days of 2024
DaysWin == {DayNumber(2023, 12, 31), DayNumber(2024, 1, 1), DayNumber(2024, 1, 2)}

RecordsWin == {r \in RecordsTS : r.MEASURE_DATE \in DaysWin}

\* The selections with farm F1 selected and every variety, over every window
\* of the four days
FiltersWin == {f \in FiltersTS : f.farmlands = <<"F1">> /\ f.variety = "ALL"}

\* The dashboard with a loaded Record Store and the recomputation timer
\* pending, the date filter enabled, for every window.
InitWin ==
    /\ allData \in OrderedDataSets(RecordsWin, MaxRecords)
    /\ filters \in FiltersWin
    /\ activeTab = "dashboard"
    /\ loading = TRUE
    /\ timer = <<[allData |-> allData, filters |-> filters]>>
    /\ chartData = <<>>
    /\ timeSeriesChartData = <<>>
    /\ IdleViews

SpecWin == InitWin /\ [][TimerFire]_vars

\* The present selection with another window
OtherWindows ==
    {[filters EXCEPT !.startDate = g.startDate, !.endDate = g.endDate] :
        g \in FiltersWin}

\* Two series carry the same point on every day they both have
SameOnCommonDays(series, other) ==
    \A k \in 1..Len(series) : \A m \in 1..Len(other) :
        series[k]["date"] = other[m]["date"] => series[k] = other[m]

\* Every value of a point is the mean of the filtered records of its year up
\* to its day, of all farms for the overall key and of the farm for its key
ValuesFromYearToDate(p) ==
    /\ OverallKey \in DOMAIN p => p[OverallKey] = Mean(YearToDate(PointDay(p)))
    /\ \A j \in 1..Len(filters.farmlands) :
          filters.farmlands[j] \in DOMAIN p =>
              p[filters.farmlands[j]] =
                  Mean(FarmYearToDate(filters.farmlands[j], PointDay(p)))

\* C21 (window independence of cumulative values): the points emitted for a
\* day are the same under every window that contains the day, and each value
\* is the mean of the filtered records of the day's year dated up to the day,
\* those dated before the window start included.
C21_WindowIndependence ==
    TSDone =>
        /\ \A g \in OtherWindows :
              SameOnCommonDays(timeSeriesChartData, finalTimeSeriesData(allData, g))
        /\ \A k \in 1..Len(timeSeriesChartData) :
              ValuesFromYearToDate(timeSeriesChartData[k])

\* The window is the single day 2024-01-02, farm F1 measured 8.0 on
\* 2024-01-01 and 10.0 on 2024-01-02: the point of 2024-01-02 carries 9.0
\* for the farm and for the overall series.
C21_Witness ==
    /\ TSDone
    /\ filters.startDate = 20240102
    /\ filters.endDate = 20240102
    /\ \E i \in FilteredIdx : /\ allData[i].MEASURE_DATE = DayNumber(2024, 1, 1)
                              /\ allData[i].FARMLAND = "F1"
    /\ Len(timeSeriesChartData) = 1
    /\ "F1" \in DOMAIN timeSeriesChartData[1]
    /\ timeSeriesChartData[1]["F1"] = 900
    /\ timeSeriesChartData[1][OverallKey] = 900
    /\ Mean(OnDay(DayNumber(2024, 1, 2))) = 1000

\* Farms whose names, followed by _total and _count, are the names of the
\* overall accumulators of a day entry (daily) and of a variety bucket
\* (overall), beside a farm with a plain name
FarmsKeys == {"F1", "daily", "overall"}

\* Farm F1 measures 8.0, farm daily 10.0 and farm overall 12.0
RecordsKeys ==
    {r \in [FARMLAND : FarmsKeys, VARIETY : {"A"}, TAG_NO : {1},
            BRIX : {64, 80, 96}, MEASURE_DATE : DaysFarm] :
        r.BRIX = (IF r.FARMLAND = "F1" THEN 64
                  ELSE IF r.FARMLAND = "daily" THEN 80 ELSE 96)}

\* The Record Stores of at most n of these records, sorted by date
StoresKeys(n) ==
    {s \in UNION {[1..k -> RecordsKeys] : k \in 1..n} : SortedByDate(s)}

\* No farm or one farm selected, in either mode, the window being the two days
FiltersKeys ==
    [farmlands : {<<>>, <<"F1">>, <<"daily">>, <<"overall">>}, variety : {"ALL"},
     startDate : {20240101}, endDate : {20240102},
     dateFilterEnabled : BOOLEAN, year : {0}]

\* The dashboard with a loaded Record Store and the recomputation timer
\* pending, in either mode, for each selection of one farm or none.
InitKeys ==
    /\ allData \in StoresKeys(MaxRecords)
    /\ filters \in FiltersKeys
    /\ activeTab = "dashboard"
    /\ loading = TRUE
    /\ timer = <<[allData |-> allData, filters |-> filters]>>
    /\ chartData = <<>>
    /\ timeSeriesChartData = <<>>
    /\ IdleViews

SpecKeys == InitKeys /\ [][TimerFire]_vars

\* The overall values of a series, point by point, none where the key is
\* missing
OverallOf(series) ==
    [k \in 1..Len(series) |->
        IF OverallKey \in DOMAIN series[k] THEN <<series[k][OverallKey]>> ELSE <<>>]

\* The overall values of the time series are those of the empty selection
\* of farms and are means of all filtered records
OverallSeriesAnyFarms(series, unselected) ==
    /\ OverallOf(series) = OverallOf(unselected)
    /\ \A k \in 1..Len(series) :
          OverallKey \in DOMAIN series[k] =>
              series[k][OverallKey] = Mean(YearToDate(PointDay(series[k])))

\* The overall values of the categories are those of the empty selection of
\* farms and are means of all filtered records
OverallCategoriesAnyFarms(points, unselected) ==
    /\ OverallOf(points) = OverallOf(unselected)
    /\ \A k \in 1..Len(points) :
          OverallKey \in DOMAIN points[k] =>
              points[k][OverallKey] = Mean(VarietyIdx(points[k]["variety"]))

\* C22 (overall is the cross-farm average regardless of selection): in the
\* time series and in the categories the overall value of every point is the
\* mean of all filtered records of all farms and is the value computed with
\* no farm selected, whatever farm is selected, a farm named daily or overall
\* included.
C22_OverallAnyFarms ==
    DashDone =>
        IF filters.dateFilterEnabled
        THEN OverallSeriesAnyFarms(
                 timeSeriesChartData,
                 finalTimeSeriesData(allData, [filters EXCEPT !.farmlands = <<>>]))
        ELSE OverallCategoriesAnyFarms(
                 chartData,
                 finalChartData(allData, [filters EXCEPT !.farmlands = <<>>]))

----------------------------------------------------------------------------
(* Claims on the Category Aggregator: order of the points and farm series. *)

\* Three varieties measured on one day on farm F1 and on a farm named
\* overall: F1 measures 8.0, 9.0 and 10.0 for A, B and C, the other farm 2.0
\* more.
RecordsOrder ==
    {r \in [FARMLAND : {"F1", "overall"}, VARIETY : {"A", "B", "C"}, TAG_NO : {1},
            BRIX : {64, 72, 80, 88, 96}, MEASURE_DATE : {DayNumber(2024, 1, 1)}] :
        r.BRIX = 56 + 8 * LocaleRank(r.VARIETY)
                    + (IF r.FARMLAND = "overall" THEN 16 ELSE 0)}

\* The Record Stores of at most n of these records, in every order
StoresOrder(n) == UNION {[1..k -> RecordsOrder] : k \in 1..n}

\* The selections of the categorical mode with none, one or both of the
\* farms selected
FiltersOrder ==
    [farmlands : {<<>>, <<"F1">>, <<"overall">>, <<"overall", "F1">>},
     variety : {"ALL"}, startDate : {20240101}, endDate : {20240101},
     dateFilterEnabled : {FALSE}, year : {0}]

\* The dashboard in categorical mode with the recomputation timer pending,
\* the records of the store being in any order.
InitOrder ==
    /\ allData \in StoresOrder(MaxRecords)
    /\ filters \in FiltersOrder
    /\ activeTab = "dashboard"
    /\ loading = TRUE
    /\ timer = <<[allData |-> allData, filters |-> filters]>>
    /\ chartData = <<>>
    /\ timeSeriesChartData = <<>>
    /\ IdleViews

SpecOrder == InitOrder /\ [][TimerFire]_vars

\* C23 (category ordering): the categorical result is sorted strictly
\* ascending by variety label and no two points share a label, whatever the
\* order of the records in the store.
C23_CategoryOrdering ==
    CatDone =>
        /\ \A k \in 1..(Len(chartData) - 1) :
              LocaleLess(chartData[k]["variety"], chartData[k + 1]["variety"])
        /\ \A k, m \in 1..Len(chartData) :
              chartData[k]["variety"] = chartData[m]["variety"] => k = m

\* The store holds records of C, A and B in that order and the result has
\* the three points A, B, C.
C23_Witness ==
    /\ CatDone
    /\ Len(allData) = 3
    /\ allData[1].VARIETY = "C" /\ allData[2].VARIETY = "A" /\ allData[3].VARIETY = "B"
    /\ Len(chartData) = 3
    /\ chartData[1]["variety"] = "A"
    /\ chartData[2]["variety"] = "B"
    /\ chartData[3]["variety"] = "C"

\* The filtered records of farm with variety v
FarmVarietyIdx(farm, v) == {i \in VarietyIdx(v) : allData[i].FARMLAND = farm}

\* The keys of a point are the variety, the overall key and selected farms
KeysOfSelection(p) ==
    DOMAIN p \subseteq
        {"variety", OverallKey} \cup
            {filters.farmlands[j] : j \in 1..Len(filters.farmlands)}

\* The point p has the key of the selected farm exactly when the farm has a
\* filtered record of the point's variety, with the mean of those records
FarmKeyAsStated(p, farm) ==
    /\ farm \in DOMAIN p <=> FarmVarietyIdx(farm, p["variety"]) # {}
    /\ farm \in DOMAIN p => p[farm] = Mean(FarmVarietyIdx(farm, p["variety"]))

\* C24 (category farm series): a variety's point carries the key of a farm
\* exactly when the farm is selected and the filtered subset has a record of
\* that farm with that variety; the value is the mean of exactly those
\* records, and no unselected farm is a key.
C24_CategoryFarmSeries ==
    CatDone =>
        \A k \in 1..Len(chartData) :
            /\ KeysOfSelection(chartData[k])
            /\ \A j \in 1..Len(filters.farmlands) :
                  FarmKeyAsStated(chartData[k], filters.farmlands[j])

----------------------------------------------------------------------------
(* Claims on the Day-of-Year Normalizer.                                   *)

\* The record dates around the end of February: a leap day of 2020 and of
\* 2024, and the days before and after it in 2023 and 2024
DaysLeap == {DayNumber(2020, 2, 29), DayNumber(2023, 2, 28), DayNumber(2023, 3, 1),
             DayNumber(2024, 2, 28), DayNumber(2024, 2, 29), DayNumber(2024, 3, 1)}

\* Variety A measures 8.0 or 10.0 and variety B measures 12.0
RecordsLeap ==
    {r \in [FARMLAND : {"F1"}, VARIETY : Varieties, TAG_NO : {1},
            BRIX : {64, 80, 96}, MEASURE_DATE : DaysLeap] :
        (r.BRIX = 96) <=> (r.VARIETY = "B")}

\* YearlyTrendAnalysis about to render on a store of these records
InitLeap ==
    /\ allData \in OrderedDataSets(RecordsLeap, MaxRecords)
    /\ DashboardLeft
    /\ yearlyTrend \in {<<st>> : st \in YearlyTrendStates}
    /\ farmAnalysis = <<>>
    /\ acc = <<>>
    /\ emitted = <<>>

SpecLeap == InitLeap /\ [][YearlyTrendRender]_vars

\* The month-days of the records of the selected variety
TrendMonthDays == {MonthDay(allData[i].MEASURE_DATE) : i \in TrendIdx}

\* C25 (Day-of-Year Normalizer ordering): the merged sequence has exactly
\* one point for each month-day of the selected variety's records and is
\* strictly ascending by month and day and by the timestamp of the month-day
\* in the leap reference year, so 02-29 comes after 02-28 and before 03-01.
C25_NormalizerOrdering ==
    TrendDone =>
        /\ Len(yearlyTrend[1].memo.chartData) = Cardinality(TrendMonthDays)
        /\ \A k \in 1..Len(yearlyTrend[1].memo.chartData) :
              /\ yearlyTrend[1].memo.chartData[k]["name"] \in TrendMonthDays
              /\ yearlyTrend[1].memo.chartData[k]["sortValue"] =
                     DayNumber(2024, yearlyTrend[1].memo.chartData[k]["name"] \div 100,
                               yearlyTrend[1].memo.chartData[k]["name"] % 100)
        /\ \A k \in 1..(Len(yearlyTrend[1].memo.chartData) - 1) :
              /\ yearlyTrend[1].memo.chartData[k]["name"]
                     < yearlyTrend[1].memo.chartData[k + 1]["name"]
              /\ yearlyTrend[1].memo.chartData[k]["sortValue"]
                     < yearlyTrend[1].memo.chartData[k + 1]["sortValue"]

\* Records of 2023-02-28, 2023-03-01 and 2020-02-29: the leap day of the
\* earliest year is the second of the three points.
C25_Witness ==
    /\ TrendDone
    /\ Len(yearlyTrend[1].memo.chartData) = 3
    /\ yearlyTrend[1].memo.chartData[1]["name"] = 228
    /\ yearlyTrend[1].memo.chartData[2]["name"] = 229
    /\ yearlyTrend[1].memo.chartData[3]["name"] = 301
    /\ DOMAIN yearlyTrend[1].memo.chartData[1] = {"name", "sortValue", "2023"}
    /\ DOMAIN yearlyTrend[1].memo.chartData[2] = {"name", "sortValue", "2020"}
    /\ DOMAIN yearlyTrend[1].memo.chartData[3] = {"name", "sortValue", "2023"}

\* The records of the selected variety dated on month-day md of year y
TrendDayIdx(y, md) ==
    {i \in TrendIdx : /\ getFullYear(allData[i].MEASURE_DATE) = y
                      /\ MonthDay(allData[i].MEASURE_DATE) = md}

\* The years of the records of the store
StoreYears == {getFullYear(allData[i].MEASURE_DATE) : i \in 1..Len(allData)}

\* The point p has the key of year y exactly when the selected variety has
\* a record on the point's month-day in that year, with the mean of those
\* records
YearKeyAsStated(p, y) ==
    /\ ToString(y) \in DOMAIN p <=> TrendDayIdx(y, p["name"]) # {}
    /\ ToString(y) \in DOMAIN p => p[ToString(y)] = Mean(TrendDayIdx(y, p["name"]))

\* C26 (Day-of-Year Normalizer values): the point of a month-day carries the
\* key of a year exactly when the selected variety has a record on that
\* month-day in that year; the value is the plain mean of exactly those
\* records, and a point has no other key than its name, its sort value and
\* years.
C26_NormalizerValues ==
    TrendDone =>
        \A k \in 1..Len(yearlyTrend[1].memo.chartData) :
            /\ DOMAIN yearlyTrend[1].memo.chartData[k] \subseteq
                   {"name", "sortValue"} \cup {ToString(y) : y \in StoreYears}
            /\ \A y \in StoreYears :
                  YearKeyAsStated(yearlyTrend[1].memo.chartData[k], y)

\* Variety A measured 8.0 on 2023-02-28, 10.0 on 2024-02-28 and 8.0 on
\* 2024-02-29: the point 02-28 carries 8.0 for 2023 and 10.0 for 2024, and
\* the point 02-29 carries 8.0 for 2024, where a running mean would be 9.0.
C26_Witness ==
    /\ TrendDone
    /\ yearlyTrend[1].selectedVariety = "A"
    /\ Len(allData) = 3
    /\ Len(yearlyTrend[1].memo.chartData) = 2
    /\ yearlyTrend[1].memo.chartData[1]["name"] = 228
    /\ DOMAIN yearlyTrend[1].memo.chartData[1] = {"name", "sortValue", "2023", "2024"}
    /\ yearlyTrend[1].memo.chartData[1]["2023"] = 800
    /\ yearlyTrend[1].memo.chartData[1]["2024"] = 1000
    /\ yearlyTrend[1].memo.chartData[2]["name"] = 229
    /\ DOMAIN yearlyTrend[1].memo.chartData[2] = {"name", "sortValue", "2024"}
    /\ yearlyTrend[1].memo.chartData[2]["2024"] = 800

----------------------------------------------------------------------------
(* Claim on the Tag Heatmap Aggregator.                                    *)

\* The tags other than 0 of the records of the farm and date range
FarmTags == {allData[i].TAG_NO : i \in FarmIdx} \ {0}

\* C27 (tag heatmap result): the heatmap has exactly one entry for each tag
\* other than 0 of the farm's records dated from the start to the end of
\* the date range, the end date included, each with the mean of the records
\* of that tag, in strictly ascending order of the tag.
C27_TagHeatmapResult ==
    FarmDone =>
        /\ Len(farmAnalysis[1].tagData) = Cardinality(FarmTags)
        /\ \A k \in 1..Len(farmAnalysis[1].tagData) :
              /\ farmAnalysis[1].tagData[k].tag \in FarmTags
              /\ farmAnalysis[1].tagData[k].avg =
                     Mean(TagIdx(farmAnalysis[1].tagData[k].tag))
        /\ \A k \in 1..(Len(farmAnalysis[1].tagData) - 1) :
              farmAnalysis[1].tagData[k].tag < farmAnalysis[1].tagData[k + 1].tag

\* The date range is the single day 2024-01-02; the farm has a record of
\* tag 1 on 2024-01-01, measuring 8.0, and records of tags 2 and 1, in that
\* order, on 2024-01-02, measuring 10.0: the heatmap is tag 1 and tag 2 with
\* 10.0 each.
C27_Witness ==
    /\ FarmDone
    /\ farmAnalysis[1].startDate = 20240102
    /\ farmAnalysis[1].endDate = 20240102
    /\ Len(allData) = 3
    /\ \A i \in 1..3 : allData[i].FARMLAND = farmAnalysis[1].selectedFarm
    /\ allData[1].MEASURE_DATE = DayNumber(2024, 1, 1) /\ allData[1].TAG_NO = 1
    /\ allData[2].MEASURE_DATE = DayNumber(2024, 1, 2) /\ allData[2].TAG_NO = 2
    /\ allData[3].MEASURE_DATE = DayNumber(2024, 1, 2) /\ allData[3].TAG_NO = 1
    /\ farmAnalysis[1].tagData = <<[tag |-> 1, avg |-> 1000], [tag |-> 2, avg |-> 1000]>>

----------------------------------------------------------------------------
(* The tabs, the recomputation timer and the loading flag.                 *)

\* The effect after a change of the tab on a loaded store: the cleanup
\* cancels the timer; on the analysis tab the effect returns before
\* setLoading, on the dashboard tab it sets loading and starts a timer.
TabEffect(tab) ==
    IF tab = "dashboard"
    THEN /\ loading' = TRUE
         /\ timer' = <<[allData |-> allData, filters |-> filters]>>
    ELSE /\ loading' = loading
         /\ timer' = <<>>

\* onClick={() => setActiveTab(tab)} of a tab button, shown for a loaded
\* store: a click on the active tab changes no state and runs no effect.
setActiveTab(tab) ==
    /\ allData # <<>>
    /\ IF tab = activeTab
       THEN UNCHANGED vars
       ELSE /\ activeTab' = tab
            /\ TabEffect(tab)
            /\ UNCHANGED <<allData, filters, chartData, timeSeriesChartData,
                           farmAnalysis, yearlyTrend, acc, emitted>>

\* A click on one of the two tab buttons
TabClicked == \E tab \in {"dashboard", "analysis"} : setActiveTab(tab)

\* One row of a file: variety A measured on a farm
AppRow(date, brix, farm) ==
    [MEASURE_DATE |-> date, BRIX |-> brix, FARMLAND |-> farm, VARIETY |-> "A",
     TAG_NO |-> 1]

\* A file of one record, a file of two records of two farms and two years,
\* and a file without a valid row
AppFiles ==
    {<<AppRow(20240101, "8.0", "F1")>>,
     <<AppRow(20240101, "8.0", "F2"), AppRow(20231231, "10.0", "F1")>>,
     <<AppRow(0, "8.0", "F1")>>}

\* The load of one of the files
FileLoaded == \E parsedData \in AppFiles : handleFileParsed(parsedData)

\* File loads, clicks on the date filter, on the farms and on the tabs, and
\* the timer, in any order
NextApp ==
    \/ FileLoaded
    \/ DateFilterClicked
    \/ FarmlandClicked
    \/ TabClicked
    \/ TimerFire

SpecApp == InitApp /\ [][NextApp]_vars

\* A step that leaves the store, the selection and the tab and takes the
\* timer away with loading cleared: of the steps of NextApp, those of the
\* timer's callback and no other (TimerStepsAreRecomputed)
Recomputed ==
    /\ timer # <<>>
    /\ timer' = <<>>
    /\ loading' = FALSE
    /\ UNCHANGED <<allData, filters, activeTab>>

\* The callback of a timer that stays pending is run: setTimeout runs it
\* after 50 ms unless clearTimeout has taken it away. The fairness is put on
\* Recomputed, which is enabled exactly when a timer is pending, as TimerFire
\* is, and is taken exactly by the steps of TimerFire.
SpecAppLive == SpecApp /\ WF_<<timer, loading>>(Recomputed)

\* The steps of TimerFire are the steps that satisfy Recomputed.
TimerStepsAreRecomputed == [][Recomputed <=> TimerFire]_vars

\* A pending timer closed over the present store and selection, on the
\* dashboard tab
PendingIsCurrent ==
    timer # <<>> =>
        /\ timer[1].allData = allData
        /\ timer[1].filters = filters
        /\ activeTab = "dashboard"

\* The chart data are those of processData on the store and selection
ChartsOf(data, f) ==
    IF f.dateFilterEnabled
    THEN <<<<>>, finalTimeSeriesData(data, f)>>
    ELSE <<finalChartData(data, f), <<>>>>

\* A step that changes the chart data either is a file load, which empties
\* both, or leaves the store, the selection and the tab as they are and
\* writes the result of processData on them.
WritesAreCurrent ==
    <<chartData, timeSeriesChartData>>' # <<chartData, timeSeriesChartData>> =>
        \/ /\ FileLoaded
           /\ chartData' = <<>>
           /\ timeSeriesChartData' = <<>>
        \/ /\ UNCHANGED <<allData, filters, activeTab>>
           /\ activeTab = "dashboard"
           /\ <<chartData, timeSeriesChartData>>' = ChartsOf(allData, filters)

C29_LoadingClears ==
    <>[][TimerFire]_vars => <>[](loading = FALSE)

\* A recomputation empties the chart data of the other mode, and a file
\* load empties both.
WritesAreExclusive ==
    /\ Recomputed =>
          IF filters.dateFilterEnabled THEN chartData' = <<>>
          ELSE timeSeriesChartData' = <<>>
    /\ FileLoaded => chartData' = <<>> /\ timeSeriesChartData' = <<>>

\* C30 (exclusive chart outputs): the categorical chart data and the
\* time-series chart data are never both non-empty; each recomputation
\* empties the one of the other mode, and a file load empties both.
C30_ExclusiveOutputs ==
    /\ [](chartData = <<>> \/ timeSeriesChartData = <<>>)
    /\ [][WritesAreExclusive]_vars

\* The time series has been computed after the categories had been: the
\* store of two records is loaded, the categorical result of an earlier
\* recomputation is gone and the time series covers the two days.
C30_Witness ==
    /\ DashDone
    /\ filters.dateFilterEnabled
    /\ Len(allData) = 2
    /\ chartData = <<>>
    /\ Len(timeSeriesChartData) = 2

====
